---- MODULE Spec2Model ----
(***************************************************************************)
(* Route resource injection of @blueprint-ts/core (installRouteInjection). *)
(*                                                                         *)
(* One router with the beforeResolve guard installed.  Every navigation    *)
(* gets a route location `to` of its own, with a fresh meta bag; the cache *)
(* is the one object shared by all navigations.  The guard body has no     *)
(* await: it runs to its end in one step, and the resolvers it fired       *)
(* settle later, one event-loop turn each, in any order.  The state holds  *)
(* the meta of the current route location (what useRoute() shows); a call  *)
(* in flight for an earlier location still writes the shared cache, and    *)
(* its writes to the meta of its own location are seen by nobody.  The     *)
(* number of navigations is not bounded.                                   *)
(***************************************************************************)
EXTENDS Integers, Sequences, FiniteSets, Bags, TLC

\* ---------------------------------------------------------------- bounds
MaxInflight == 2    \* resolutions in flight at once when refresh is called
MaxVer == 2         \* distinct answers the backend gives for one param value

\* ---------------------------------------------------------------- values
Props == {"invoice", "product"}
ParamVals == {"1", "2"}
NoParam == "undefined"                 \* undefined, where a string is expected
Undefined == [type |-> "undefined"]    \* undefined, where an object is expected
Null == [type |-> "null"]

\* to.params[cfg.from]: absent, a string, or the array of a repeatable param
RawParams == {[kind |-> "absent"]}
             \cup {[kind |-> "string", v |-> v] : v \in ParamVals}
             \cup {[kind |-> "array", items |-> <<>>]}
             \cup {[kind |-> "array", items |-> <<v>>] : v \in ParamVals}

\* What a navigation asks of one prop: no inject entry in the matched records,
\* or an entry, with the raw value of its `from` param.  Prop names are
\* distinct across the hierarchy.
Targets == [Props -> {[kind |-> "noInject"]} \cup RawParams]

\* The props whose inject entry has a getter.
HasGetter == {"product"}

\* What resolver.resolve() of cfg.resolve(paramValue) fulfils with: the
\* backend's answer for that param, one of MaxVer (the data may have changed).
Response(paramValue, ver) == [param |-> paramValue, ver |-> ver, got |-> FALSE]
\* What resolver.resolve() rejects with: an Error, or any other thrown value.
Rejections == { [isError |-> TRUE, msg |-> "Network error"],
                [isError |-> FALSE, msg |-> "timeout"] }

VARIABLES
    injectable,      \* the prop names the router's route records declare (one here)
    cache,           \* propName -> CachedEntry | Undefined
    injectedProps,   \* to.meta._injectedProps of the current route
    injectionState,  \* to.meta._injectionState of the current route
    resolvers,       \* per propName the paramValue its resolveProp captured | NoParam
    inflight,        \* bag of calls of resolveProp suspended at `await resolver.resolve()`
    outcome,         \* how the promise of the last step's caller ended
    trip             \* history: resolved there, navigated away, came back

vars == <<injectable, cache, injectedProps, injectionState, resolvers,
          inflight, outcome, trip>>

\* ------------------------------------------------------- pure pieces

\* paramValue of an inject entry, NoParam when the entry is skipped.
ParamValue(rawParam) ==
    IF rawParam.kind = "absent" THEN NoParam
    ELSE IF rawParam.kind = "string" THEN rawParam.v
    ELSE IF Len(rawParam.items) = 0 THEN NoParam
    ELSE rawParam.items[1]

\* Mutant: every declared injection is active, its param present or not.
ActivePropNames_Declared(t) ==
    {p \in Props : t[p].kind # "noInject"}

\* activePropNames of a target.
ActivePropNames(t) ==
    {p \in Props : t[p].kind # "noInject" /\ ParamValue(t[p]) # NoParam}

\* `cached && cached.paramValue === paramValue`
CacheHit(cached, paramValue) ==
    cached # Undefined /\ cached.paramValue = paramValue

\* Mutant: the eviction loop deletes nothing.
Evict_Nothing(c, active) == c

\* The eviction loop at the end of the guard.
Evict(c, active) ==
    [p \in Props |-> IF p \in active THEN c[p] ELSE Undefined]

\* `if (typeof cfg.getter === 'function') payload = cfg.getter(payload)`
ApplyGetter(p, payload) ==
    IF p \in HasGetter THEN [payload EXCEPT !.got = TRUE] ELSE payload

\* Mutant: an entry already cached is not overwritten.
CacheWrite_KeepExisting(c, p, paramValue, payload) ==
    IF c[p] # Undefined THEN c
    ELSE [c EXCEPT ![p] = [paramValue |-> paramValue, payload |-> payload]]

\* Mutant: the cache holds one entry, writing a prop drops the others.
CacheWrite_SingleSlot(c, p, paramValue, payload) ==
    [q \in Props |-> IF q = p THEN [paramValue |-> paramValue, payload |-> payload]
                     ELSE Undefined]

\* Mutant: the entry is keyed by the param of the latest navigation instead
\* of the one the call was made for.
CacheWrite_CurrentParam(c, p, paramValue, payload) ==
    [c EXCEPT ![p] = [paramValue |-> resolvers[p], payload |-> payload]]

\* `cache[propName] = { paramValue, payload }`
CacheWrite(c, p, paramValue, payload) ==
    [c EXCEPT ![p] = [paramValue |-> paramValue, payload |-> payload]]

\* Mutant: the first payload to arrive stays, a later one is dropped.
InjectedWrite_FirstWins(bag, p, payload) ==
    IF bag[p] # Undefined THEN bag ELSE [bag EXCEPT ![p] = payload]

\* `injectedProps[propName] = payload`
InjectedWrite(bag, p, payload) ==
    [bag EXCEPT ![p] = payload]

\* Mutant: the thrown value is stored as it is.
ToError_Raw(e) == e

\* `e instanceof Error ? e : new Error(String(e))`
ToError(e) ==
    IF e.isError THEN e ELSE [isError |-> TRUE, msg |-> e.msg]

\* Mutant: the silent option is ignored.
StartState_AlwaysLoading(propState, silent) ==
    [loading |-> TRUE, error |-> Null]

\* The first lines of resolveProp: loading unless silent, error cleared.
StartState(propState, silent) ==
    [loading |-> IF silent THEN propState.loading ELSE TRUE, error |-> Null]

\* Mutant: the finally block is missing.
FulfilledState_KeepsLoading(propState) == propState

\* `finally { propState.loading = false }` after a fulfilled resolver.
FulfilledState(propState) ==
    [propState EXCEPT !.loading = FALSE]

\* catch + finally after a rejected resolver.
RejectedState(propState, e) ==
    [loading |-> FALSE, error |-> ToError(e)]

\* Mutant: a miss does not set loading.
GuardState_NotLoading(hit) ==
    [loading |-> FALSE, error |-> Null]

\* The state entry the guard leaves for an active prop: created with
\* loading false / error null; a miss sets loading and then enters resolveProp.
GuardState(hit) ==
    IF hit THEN [loading |-> FALSE, error |-> Null]
    ELSE StartState([loading |-> TRUE, error |-> Null], FALSE)

\* Mutant: whatever is cached is injected, the param not compared.
GuardInjected_Stale(cached, hit) ==
    IF cached # Undefined THEN cached.payload ELSE Undefined

\* What the guard leaves in _injectedProps for an active prop.
GuardInjected(cached, hit) ==
    IF hit THEN cached.payload ELSE Undefined

\* Mutant: the `continue` of the cache-hit branch is missing.
GuardQueues_Always(hit) == TRUE

\* Whether the guard queues (and fires) a resolver for an active prop.
GuardQueues(hit) == ~hit

\* The guard is an async function without an await and without a throw: its
\* promise is fulfilled when the body ends, resolvers still pending.
GuardReturn ==
    [of |-> "guard", kind |-> "fulfilled", value |-> Undefined, logged |-> Undefined]

\* The wrapper of a pending resolver whose resolveProp() fulfilled.
PendingDone ==
    [of |-> "pending", kind |-> "fulfilled", value |-> Undefined, logged |-> Undefined]

\* The wrapper of a pending resolver whose resolveProp() threw e: catch,
\* console.error, no re-throw.
PendingWrapper(e) ==
    [of |-> "pending", kind |-> "fulfilled", value |-> Undefined, logged |-> e]

\* to.meta.refresh has called resolveProp and waits for it.
RefreshPending ==
    [of |-> "refresh", kind |-> "pending", value |-> Undefined, logged |-> Undefined]

\* Mutant: refresh catches the rejection, as the wrapper of a pending
\* resolver does.
RefreshRejected_Swallowed(e) ==
    [of |-> "refresh", kind |-> "fulfilled", value |-> Undefined, logged |-> e]

\* to.meta.refresh awaits resolveProp: a rejection reaches its caller.
RefreshRejected(e) ==
    [of |-> "refresh", kind |-> "rejected", value |-> e, logged |-> Undefined]

\* to.meta.refresh returns what resolveProp returned.
RefreshFulfilled(payload) ==
    [of |-> "refresh", kind |-> "fulfilled", value |-> payload, logged |-> Undefined]

\* ------------------------------------------- route definition and view
True == [type |-> "boolean", value |-> TRUE]
False == [type |-> "boolean", value |-> FALSE]

VARIABLES
    definition,      \* the route definition as written, before defineRoute
    route,           \* the route record shown, as defineRoute returned it
    slots,           \* the names of the slots given to RouteResourceBoundView
    rendered,        \* what the view's render function returned last
    refreshCalls     \* the propNames the view's refresh passed to route.meta.refresh

viewVars == <<definition, route, slots, rendered, refreshCalls>>

\* A route definition: whether it has a component, the prop names of an
\* inject block at its top level and of one under meta (none: no block), its
\* lazy option, and whether it names an error and a loading component.
RouteDef(component, inject, metaInject, lazy, errorComponent, loadingComponent) ==
    [component |-> component, inject |-> inject, lazy |-> lazy,
     errorComponent |-> errorComponent, loadingComponent |-> loadingComponent,
     meta |-> [inject |-> metaInject, _lazy |-> Undefined,
               _errorComponent |-> FALSE, _loadingComponent |-> FALSE]]

\* Mutant: the lazy option is dropped instead of moved into meta.
DefineRoute_LazyDropped(r) ==
    [r EXCEPT !.lazy = Undefined]

\* defineRoute()(route): errorComponent, loadingComponent and lazy are moved
\* into meta and deleted from the route; everything else stays where it is.
DefineRoute(r) ==
    [r EXCEPT
       !.meta._errorComponent = IF r.errorComponent THEN TRUE ELSE @,
       !.errorComponent = FALSE,
       !.meta._loadingComponent = IF r.loadingComponent THEN TRUE ELSE @,
       !.loadingComponent = FALSE,
       !.meta._lazy = IF r.lazy # Undefined THEN r.lazy ELSE @,
       !.lazy = Undefined]

\* A route record written by hand, its inject block under meta: what the
\* router of the injection guard holds when no view is looked at.
PlainRoute(inject) ==
    RouteDef(TRUE, {}, inject, Undefined, FALSE, FALSE)

\* No RouteResourceBoundView is mounted.
NotRendered == [kind |-> "notRendered"]
ViewUnmounted ==
    /\ definition = PlainRoute(injectable)
    /\ route = definition
    /\ slots = {}
    /\ rendered = NotRendered
    /\ refreshCalls = <<>>

\* -------------------------------------------------------------- paginators
\* One paginator instance (PageAwarePaginator, its subclass InfiniteScroller,
\* or StatePaginator) over a data driver and a view driver.  A load calls
\* dataDriver.get and returns; the `.then` continuation runs when the
\* driver's promise settles, one event-loop turn each, in any order.

PaginatorClasses == {"PageAwarePaginator", "InfiniteScroller", "StatePaginator"}
PageAware == {"PageAwarePaginator", "InfiniteScroller"}

\* The data drivers an instance may be given, each over a result set of its
\* own: the number of its items, and the items.
Drivers == {"d1", "d2"}
DriverTotal(d) == IF d = "d1" THEN 3 ELSE 1
ItemOf(d, i) == IF d = "d1" THEN i ELSE 10 + i

\* pageSize values used (the constructor's default is 10).
PageSizes == {1, 2}

\* PaginatorLoadDataOptions: none given, { flush: true }, { replace: true }.
NoOptions == [flush |-> FALSE, replace |-> FALSE]
LoadOptions == {NoOptions, [flush |-> TRUE, replace |-> FALSE],
                [flush |-> FALSE, replace |-> TRUE]}

\* currentState: null, where a token is expected; the tokens of a driver.
NoState == "null"
TokenAfter(i) == IF i = 1 THEN "t1" ELSE "t2"

\* dataDriver.get(pageNumber, pageSize) of a page-based driver: the slice of
\* its result set and the size of the set.
PageGet(d, pageNumber, pageSize) ==
    LET first == (pageNumber - 1) * pageSize + 1
        last == IF pageNumber * pageSize < DriverTotal(d)
                THEN pageNumber * pageSize ELSE DriverTotal(d)
    IN [data |-> IF pageNumber < 1 \/ first > last THEN <<>>
                 ELSE [i \in 1..(last - first + 1) |-> ItemOf(d, first + i - 1)],
        total |-> DriverTotal(d)]

\* dataDriver.get(state) of a cursor-based driver: one item per page, and the
\* token of the next page, null after the last.
StateGet(d, state) ==
    LET i == IF state = NoState THEN 1 ELSE IF state = "t1" THEN 2 ELSE 3
    IN [data |-> IF i <= DriverTotal(d) THEN <<ItemOf(d, i)>> ELSE <<>>,
        total |-> DriverTotal(d),
        state |-> IF i < DriverTotal(d) THEN TokenAfter(i) ELSE NoState]

VARIABLES
    paginator,       \* the class of the instance
    initialized,     \* BasePaginator.initialized
    dataDriver,      \* this.dataDriver
    currentState,    \* StatePaginator.currentState
    viewDriver,      \* the view driver's refs: data, total (, currentPage, pageSize)
    fetches,         \* bag of dataDriver.get promises pending, with their `.then`
    called,          \* the operation of the last step and its promise
    requests         \* the calls of dataDriver.get(state) so far, in order, where
                     \* a specification records them: the token passed and
                     \* whether the promise is pending, fulfilled or rejected

pagVars == <<paginator, initialized, dataDriver, currentState, viewDriver,
             fetches, called, requests>>

\* No paginator has been constructed.
NotCalled == [op |-> "none", kind |-> "none"]
PaginatorAbsent ==
    /\ paginator = "none"
    /\ initialized = FALSE
    /\ dataDriver = "none"
    /\ currentState = NoState
    /\ viewDriver = [data |-> <<>>, total |-> 0]
    /\ fetches = EmptyBag
    /\ called = NotCalled
    /\ requests = <<>>

\* ---------------------------------------------------------- request bodies
\* new FormDataBody(data): the constructor encodes data as multipart form data.

\* form.buildPayload() of a BaseForm: the request payload of the form's state.

VARIABLES
    requestBody,     \* the data given to the constructor
    content,         \* what getContent() returns, or that the constructor threw
    baseForm,        \* a BaseForm: state, the getters it defines, append, ignore
    built            \* what buildPayload() returned

formVars == <<requestBody, content, baseForm, built>>

\* No body has been constructed.
NotConstructed == [kind |-> "none"]
BodyAbsent ==
    /\ requestBody = [type |-> "object", props |-> <<>>]
    /\ content = NotConstructed

\* No form has been built.
NotBuilt == [type |-> "none"]
FormAbsent ==
    /\ baseForm = [state |-> <<>>, getters |-> <<>>, append |-> <<>>, ignore |-> {}]
    /\ built = NotBuilt

FormsAbsent == BodyAbsent /\ FormAbsent

\* ---------------------------------------------------------------- Init
Init ==
    /\ injectable \in {{p} : p \in Props}
    /\ cache = [p \in Props |-> Undefined]
    /\ injectedProps = [p \in Props |-> Undefined]
    /\ injectionState = [p \in Props |-> Undefined]
    /\ resolvers = [p \in Props |-> NoParam]
    /\ inflight = EmptyBag
    /\ outcome = [of |-> "none", kind |-> "none", value |-> Undefined, logged |-> Undefined]
    /\ trip = [stage |-> "none", prop |-> "none", paramValue |-> NoParam]
    /\ ViewUnmounted
    /\ PaginatorAbsent
    /\ FormsAbsent

\* ------------------------------------------------------------- actions

\* One call of resolveProp suspended at its await: what its closure holds
\* (propName, paramValue, and `to`: own says whether that is still the
\* current route) and its options.
Call(p, paramValue, silent, origin) ==
    [prop |-> p, own |-> TRUE, paramValue |-> paramValue,
     silent |-> silent, origin |-> origin]

\* A navigation makes another route current: the calls in flight stay, their
\* `to` is now an earlier route.
Superseded(calls) ==
    LET old == {[c EXCEPT !.own = FALSE] : c \in BagToSet(calls)}
    IN [c \in old |-> CopiesIn(c, calls) + CopiesIn([c EXCEPT !.own = TRUE], calls)]

\* The history of one round trip: a resolution of prop for paramValue was
\* cached ("there"), a navigation that began with nothing in flight evicted
\* it ("away"), and a later navigation, none since having declared the prop
\* or begun with a call in flight, asks for the prop with that paramValue
\* ("back").
NoTrip == [stage |-> "none", prop |-> "none", paramValue |-> NoParam]
TripAfterNavigate(t) ==
    LET active == ActivePropNames(t)
        gone == {p \in Props \ active : cache[p] # Undefined}
    IN IF inflight # EmptyBag THEN NoTrip
       ELSE IF /\ trip.stage = "away"
               /\ trip.prop \in active
               /\ ParamValue(t[trip.prop]) = trip.paramValue
            THEN [trip EXCEPT !.stage = "back"]
       ELSE IF trip.stage = "away" /\ trip.prop \notin active
            THEN trip
       ELSE IF gone # {}
            THEN LET p == CHOOSE q \in gone : TRUE
                 IN [stage |-> "away", prop |-> p, paramValue |-> cache[p].paramValue]
       ELSE NoTrip
TripAfterOther ==
    IF trip.stage = "away" THEN trip ELSE NoTrip

\* router.beforeResolve guard for target t, from its first line to its return.
Navigate(t) ==
    /\ \A p \in Props \ injectable : t[p].kind = "noInject"
    /\ LET active == ActivePropNames(t)
           pv(p) == ParamValue(t[p])
           hit(p) == CacheHit(cache[p], pv(p))
           queued == {p \in active : GuardQueues(hit(p))}
       IN /\ BagCardinality(inflight) + Cardinality(queued) <= MaxInflight
          /\ injectedProps' =
                 [p \in Props |-> IF p \in active
                                  THEN GuardInjected(cache[p], hit(p))
                                  ELSE Undefined]
          /\ injectionState' =
                 [p \in Props |-> IF p \in active THEN GuardState(hit(p))
                                  ELSE Undefined]
          /\ resolvers' =
                 [p \in Props |-> IF p \in active THEN pv(p) ELSE NoParam]
          /\ cache' = Evict(cache, active)
          /\ inflight' = Superseded(inflight) (+)
                 SetToBag({Call(p, pv(p), FALSE, "guard") : p \in queued})
          /\ outcome' = GuardReturn
          /\ trip' = TripAfterNavigate(t)
    /\ UNCHANGED injectable

\* to.meta.refresh(propName, {silent}) of the current route, up to the await.
Refresh(p, silent) ==
    /\ BagCardinality(inflight) < MaxInflight
    /\ resolvers[p] # NoParam
    /\ injectionState' = [injectionState EXCEPT ![p] = StartState(@, silent)]
    /\ inflight' = inflight (+) SetToBag({Call(p, resolvers[p], silent, "refresh")})
    /\ outcome' = RefreshPending
    /\ trip' = TripAfterOther
    /\ UNCHANGED <<injectable, cache, injectedProps, resolvers>>

\* refresh for a name with no resolver (or, through useRouteResource, with no
\* refresh helper on the route at all): nothing runs, undefined comes back.
RefreshNoResolver(p) ==
    /\ resolvers[p] = NoParam
    /\ outcome' = RefreshFulfilled(Undefined)
    /\ trip' = TripAfterOther
    /\ UNCHANGED <<injectable, cache, injectedProps, injectionState, resolvers, inflight>>

\* resolver.resolve() fulfils: the rest of resolveProp's try block, then finally.
SettleFulfilled(c, ver) ==
    /\ BagIn(c, inflight)
    /\ LET payload == ApplyGetter(c.prop, Response(c.paramValue, ver))
       IN /\ cache' = CacheWrite(cache, c.prop, c.paramValue, payload)
          /\ injectedProps' = IF c.own THEN InjectedWrite(injectedProps, c.prop, payload)
                              ELSE injectedProps
          /\ outcome' = IF c.origin = "guard" THEN PendingDone
                        ELSE RefreshFulfilled(payload)
    /\ injectionState' = IF c.own
                         THEN [injectionState EXCEPT ![c.prop] = FulfilledState(@)]
                         ELSE injectionState
    /\ inflight' = inflight (-) SetToBag({c})
    /\ trip' = TripAfterOther
    /\ UNCHANGED <<injectable, resolvers>>

\* resolver.resolve() rejects with e: catch, finally, and the re-throw.
SettleRejected(c, e) ==
    /\ BagIn(c, inflight)
    /\ injectionState' = IF c.own
                         THEN [injectionState EXCEPT ![c.prop] = RejectedState(@, e)]
                         ELSE injectionState
    /\ outcome' = IF c.origin = "guard" THEN PendingWrapper(e) ELSE RefreshRejected(e)
    /\ inflight' = inflight (-) SetToBag({c})
    /\ trip' = TripAfterOther
    /\ UNCHANGED <<injectable, cache, injectedProps, resolvers>>

\* The steps of the injection guard leave the view's state alone.
Next ==
    \/ \E t \in Targets : Navigate(t) /\ UNCHANGED <<viewVars, pagVars, formVars>>
    \/ \E p \in Props, silent \in BOOLEAN : Refresh(p, silent) /\ UNCHANGED <<viewVars, pagVars, formVars>>
    \/ \E p \in Props : RefreshNoResolver(p) /\ UNCHANGED <<viewVars, pagVars, formVars>>
    \/ \E c \in BagToSet(inflight), ver \in 1..MaxVer :
           SettleFulfilled(c, ver) /\ UNCHANGED <<viewVars, pagVars, formVars>>
    \/ \E c \in BagToSet(inflight), e \in Rejections :
           SettleRejected(c, e) /\ UNCHANGED <<viewVars, pagVars, formVars>>

Spec == Init /\ [][Next]_<<vars, viewVars, pagVars, formVars>>

\* ------------------------------------------------- reading one step

\* The number of calls in flight for prop p whose `to` is the current route.
OwnCalls(calls, p) ==
    LET own == {c \in BagToSet(calls) : c.own /\ c.prop = p}
    IN BagCardinality([c \in own |-> CopiesIn(c, calls)])

\* The step is a run of the guard (only the guard leaves its promise behind).
GuardStep == outcome'.of = "guard"

\* The number of calls of resolve for p the step made: the guard supersedes
\* every earlier call, so all own calls after it are its own.
Invoked(p) ==
    IF GuardStep THEN OwnCalls(inflight', p)
    ELSE IF OwnCalls(inflight', p) > OwnCalls(inflight, p) THEN 1 ELSE 0

\* Call c was started by (a refresh in) this step.
Started(c) ==
    /\ ~GuardStep
    /\ c.own
    /\ CopiesIn(c, inflight') = CopiesIn(c, inflight) + 1

\* Call c settled in this step.
Settled(c) ==
    /\ ~GuardStep
    /\ BagIn(c, inflight)
    /\ CopiesIn(c, inflight') = CopiesIn(c, inflight) - 1

\* The prop has a resolver on the current route / gets one by this step.
Active(p) == resolvers[p] # NoParam
ActiveAfter(p) == resolvers'[p] # NoParam

\* ---------------------------------------------------------------- claims

\* C1: cache hit in the guard.  When the guard processes an injection whose
\* propName is cached with the same paramValue as the target's param, it does
\* not invoke resolve, it leaves the cached payload in _injectedProps when it
\* returns, and the prop's loading flag is not set.
C1_CacheHit ==
    [][\A p \in Props :
          (/\ GuardStep
           /\ ActiveAfter(p)
           /\ cache[p] # Undefined
           /\ cache[p].paramValue = resolvers'[p])
          => /\ Invoked(p) = 0
             /\ injectedProps'[p] = cache[p].payload
             /\ injectionState'[p].loading = FALSE]_vars

\* A guard has just returned with a payload already injected: a cache hit.
C1_Witness ==
    \E p \in Props :
        /\ outcome.of = "guard"
        /\ Active(p)
        /\ injectedProps[p] # Undefined
        /\ OwnCalls(inflight, p) = 0

\* C2 (as claimed): of two consecutive navigations that declare the same
\* prop, the second does not invoke resolve when the param value is unchanged
\* and invokes it exactly once when it differs, whenever the second starts.
C2_NoRedundantRequests ==
    [][\A p \in Props :
          (GuardStep /\ Active(p) /\ ActiveAfter(p))
          => Invoked(p) = (IF resolvers'[p] = resolvers[p] THEN 0 ELSE 1)]_vars

C5_EvictionInvariant ==
    \A p \in Props : cache[p] # Undefined => Active(p)

\* C6: navigating away and back re-resolves.  A prop cached for v, evicted by
\* a navigation to a hierarchy without it, and asked for again with v (every
\* navigation having begun with nothing in flight) has resolve invoked again.
C6_AwayAndBack ==
    [][(trip.stage = "away" /\ trip'.stage = "back")
          => /\ GuardStep
             /\ Invoked(trip'.prop) = 1
             /\ resolvers'[trip'.prop] = trip'.paramValue
             /\ injectedProps'[trip'.prop] = Undefined]_vars

\* The return navigation of a round trip has just run.
C6_Witness ==
    /\ trip.stage = "back"
    /\ OwnCalls(inflight, trip.prop) = 1

\* C7: refresh bypasses the cache.  A refresh of a prop with a resolver
\* invokes resolve whatever the cache holds; when its resolver fulfils, the
\* cache entry and (on its route) _injectedProps hold the fresh payload, which
\* is what refresh returns.
C7_RefreshBypassesCache ==
    [][/\ (~GuardStep /\ outcome' = RefreshPending /\ inflight' # inflight)
          => \E p \in Props : Active(p) /\ Invoked(p) = 1
       /\ \A c \in BagToSet(inflight) :
             (Settled(c) /\ c.origin = "refresh" /\ outcome'.kind = "fulfilled")
             => /\ outcome'.value # Undefined
                /\ outcome'.value.param = c.paramValue
                /\ cache'[c.prop] = [paramValue |-> c.paramValue, payload |-> outcome'.value]
                /\ c.own => injectedProps'[c.prop] = outcome'.value]_vars

\* A refresh has returned its payload, now both cached and injected.
C7_Witness ==
    \E p \in Props :
        /\ outcome.of = "refresh"
        /\ outcome.kind = "fulfilled"
        /\ outcome.value # Undefined
        /\ cache[p] # Undefined
        /\ cache[p].payload = outcome.value
        /\ injectedProps[p] = outcome.value

\* C8: silent refresh.  refresh(propName, {silent: true}) leaves the loading
\* flag as it is when called and does not set it at settlement, still updates
\* cache and injected prop on success, and still sets the error on failure.
C8_SilentRefresh ==
    [][\A c \in [prop : Props, own : {TRUE}, paramValue : ParamVals,
                 silent : {TRUE}, origin : {"refresh"}] :
          /\ Started(c)
             => injectionState'[c.prop].loading = injectionState[c.prop].loading
          /\ Settled(c)
             => /\ injectionState'[c.prop].loading = FALSE
                /\ outcome'.kind = "fulfilled"
                   => /\ injectedProps'[c.prop] = outcome'.value
                      /\ cache'[c.prop].payload = outcome'.value
                      /\ injectionState'[c.prop].error = injectionState[c.prop].error
                /\ outcome'.kind = "rejected"
                   => /\ injectionState'[c.prop].error # Null
                      /\ injectionState'[c.prop].error.msg = outcome'.value.msg]_vars

\* A silent refresh is in flight and the loading flag is not set.
C8_Witness ==
    \E c \in BagToSet(inflight) :
        /\ c.silent /\ c.own
        /\ OwnCalls(inflight, c.prop) = 1
        /\ ~injectionState[c.prop].loading

\* C9 (as claimed): a prop's loading flag is true exactly while a non-silent
\* resolution of it is in flight.
C9_LoadingWhileResolving ==
    \A p \in Props : Active(p) =>
        (injectionState[p].loading <=>
            \E c \in BagToSet(inflight) : c.own /\ c.prop = p /\ ~c.silent)

\* C10: a guard-initiated resolution that rejects is stored and swallowed.
\* The prop's error becomes an Error (another thrown value is wrapped), its
\* loading flag false, cache and _injectedProps are not written, and the
\* wrapper's promise does not reject.
C10_BackgroundFailure ==
    [][\A c \in BagToSet(inflight) :
          (/\ Settled(c) /\ c.origin = "guard"
           /\ outcome'.logged # Undefined)
          => /\ outcome'.kind = "fulfilled"
             /\ cache' = cache
             /\ injectedProps' = injectedProps
             /\ c.own => /\ injectionState'[c.prop].loading = FALSE
                         /\ injectionState'[c.prop].error # Null
                         /\ injectionState'[c.prop].error.isError
                         /\ injectionState'[c.prop].error.msg = outcome'.logged.msg]_vars

\* A guard's resolver rejected with something that is no Error: it is
\* logged, and the prop's error is an Error made of it.
C10_Witness ==
    \E p \in Props :
        /\ outcome.of = "pending"
        /\ outcome.logged # Undefined
        /\ ~outcome.logged.isError
        /\ Active(p)
        /\ injectionState[p].error # Null
        /\ injectionState[p].error.isError
        /\ ~injectionState[p].loading

\* C11: explicit refresh re-throws.  When the resolver of a call made by
\* to.meta.refresh rejects with e, the promise of refresh rejects with e
\* itself, cache and _injectedProps stay as they were, and (on the call's own
\* route) the prop's error is the Error made of e and its loading flag false.
C11_RefreshRethrows ==
    [][\A c \in BagToSet(inflight), e \in Rejections :
          (SettleRejected(c, e) /\ c.origin = "refresh")
          => /\ outcome'.of = "refresh"
             /\ outcome'.kind = "rejected"
             /\ outcome'.value = e
             /\ cache' = cache
             /\ injectedProps' = injectedProps
             /\ c.own => /\ injectionState'[c.prop].loading = FALSE
                         /\ injectionState'[c.prop].error = ToError(e)]_vars

\* A refresh has rejected with a payload cached and injected before it: both
\* are still there, the error is set and loading is off.
C11_Witness ==
    \E p \in Props :
        /\ outcome.of = "refresh"
        /\ outcome.kind = "rejected"
        /\ cache[p] # Undefined
        /\ injectedProps[p] = cache[p].payload
        /\ injectionState[p].error # Null
        /\ injectionState[p].error.msg = outcome.value.msg
        /\ ~injectionState[p].loading

\* C12 (as claimed): refresh resets loading and error state.  In the step in
\* which a refresh whose resolver fulfilled settles (on its own route), the
\* prop's error is null, its loading flag false and _injectedProps holds the
\* fresh payload, whatever else of the same prop was in flight meanwhile.
C12_RefreshResets ==
    [][\A c \in BagToSet(inflight), ver \in 1..MaxVer :
          (SettleFulfilled(c, ver) /\ c.origin = "refresh" /\ c.own)
          => /\ injectionState'[c.prop].error = Null
             /\ injectionState'[c.prop].loading = FALSE
             /\ injectedProps'[c.prop] = ApplyGetter(c.prop, Response(c.paramValue, ver))]_vars

\* C13: a same-prop race is last-to-complete-wins.  A refresh issued while a
\* resolution of the prop is in flight invokes resolve once more and cancels
\* nothing; every call that fulfils writes its own payload to the cache and
\* (on its own route) to _injectedProps, whatever else is in flight and
\* whichever call was started first; a call that rejects writes neither.  So
\* after all have settled both hold the payload of the last one to succeed.
C13_LastToCompleteWins ==
    [][/\ \A p \in Props, silent \in BOOLEAN :
             (Refresh(p, silent) /\ OwnCalls(inflight, p) > 0)
             => /\ Invoked(p) = 1
                /\ \A c \in BagToSet(inflight) : CopiesIn(c, inflight') >= CopiesIn(c, inflight)
                /\ cache' = cache
                /\ injectedProps' = injectedProps
       /\ \A c \in BagToSet(inflight), ver \in 1..MaxVer :
             SettleFulfilled(c, ver)
             => LET payload == ApplyGetter(c.prop, Response(c.paramValue, ver))
                IN /\ cache'[c.prop] = [paramValue |-> c.paramValue, payload |-> payload]
                   /\ c.own => injectedProps'[c.prop] = payload
                   /\ \A d \in BagToSet(inflight) :
                         d # c => CopiesIn(d, inflight') = CopiesIn(d, inflight)
       /\ \A c \in BagToSet(inflight), e \in Rejections :
             SettleRejected(c, e)
             => /\ cache' = cache
                /\ injectedProps' = injectedProps]_vars

\* A race in which the call started last has completed first: the refresh
\* has fulfilled and its payload is cached and injected, while the resolution
\* the guard started before it is still in flight and will overwrite both.
C13_Witness ==
    \E c \in BagToSet(inflight) :
        /\ c.own /\ c.origin = "guard"
        /\ outcome.of = "refresh"
        /\ outcome.kind = "fulfilled"
        /\ outcome.value # Undefined
        /\ injectedProps[c.prop] = outcome.value
        /\ cache[c.prop] # Undefined
        /\ cache[c.prop].payload = outcome.value

\* A router whose route records declare both props, so that one navigation
\* resolves two props concurrently.
InitBoth ==
    /\ injectable = Props
    /\ cache = [p \in Props |-> Undefined]
    /\ injectedProps = [p \in Props |-> Undefined]
    /\ injectionState = [p \in Props |-> Undefined]
    /\ resolvers = [p \in Props |-> NoParam]
    /\ inflight = EmptyBag
    /\ outcome = [of |-> "none", kind |-> "none", value |-> Undefined, logged |-> Undefined]
    /\ trip = NoTrip
    /\ ViewUnmounted
    /\ PaginatorAbsent
    /\ FormsAbsent

\* The targets of that router: each prop not declared by the matched records,
\* or declared with a string param.
TargetsBoth ==
    [Props -> {[kind |-> "noInject"]} \cup {[kind |-> "string", v |-> v] : v \in ParamVals}]

\* The navigations taken here begin when nothing is in flight, so that every
\* call in flight belongs to the current route.
NextBoth ==
    \/ \E t \in TargetsBoth :
           inflight = EmptyBag /\ Navigate(t) /\ UNCHANGED <<viewVars, pagVars, formVars>>
    \/ \E p \in Props, silent \in BOOLEAN : Refresh(p, silent) /\ UNCHANGED <<viewVars, pagVars, formVars>>
    \/ \E c \in BagToSet(inflight), ver \in 1..MaxVer :
           SettleFulfilled(c, ver) /\ UNCHANGED <<viewVars, pagVars, formVars>>
    \/ \E c \in BagToSet(inflight), e \in Rejections :
           SettleRejected(c, e) /\ UNCHANGED <<viewVars, pagVars, formVars>>

SpecBoth == InitBoth /\ [][NextBoth]_<<vars, viewVars, pagVars, formVars>>

\* C14: resolutions of different props are independent.  The settlement of a
\* call of prop p leaves the cache entry, the injected value and the
\* loading/error state of every other prop as they were, fulfilled or
\* rejected; and what it leaves for p is made of the call, of what its
\* resolver yielded and of p's own state only.  So the state after two props
\* have settled is the same in either order, and a failure of one changes
\* nothing of the other.
C14_PropsIndependent ==
    [][/\ \A c \in BagToSet(inflight), ver \in 1..MaxVer :
             SettleFulfilled(c, ver)
             => LET payload == ApplyGetter(c.prop, Response(c.paramValue, ver))
                IN /\ \A q \in Props \ {c.prop} :
                         /\ cache'[q] = cache[q]
                         /\ injectedProps'[q] = injectedProps[q]
                         /\ injectionState'[q] = injectionState[q]
                   /\ cache'[c.prop] = [paramValue |-> c.paramValue, payload |-> payload]
                   /\ c.own => /\ injectedProps'[c.prop] = payload
                               /\ injectionState'[c.prop] =
                                      [loading |-> FALSE,
                                       error |-> injectionState[c.prop].error]
       /\ \A c \in BagToSet(inflight), e \in Rejections :
             SettleRejected(c, e)
             => /\ \A q \in Props \ {c.prop} :
                      /\ cache'[q] = cache[q]
                      /\ injectedProps'[q] = injectedProps[q]
                      /\ injectionState'[q] = injectionState[q]
                /\ cache'[c.prop] = cache[c.prop]
                /\ injectedProps'[c.prop] = injectedProps[c.prop]
                /\ c.own => injectionState'[c.prop] =
                                [loading |-> FALSE, error |-> ToError(e)]]_vars

\* One navigation started the resolvers of both props; the one of p has
\* rejected, the one of q is still pending and q's state shows nothing of it.
C14_Witness ==
    \E p \in Props, c \in BagToSet(inflight) :
        /\ c.own /\ c.origin = "guard" /\ c.prop # p
        /\ outcome.of = "pending"
        /\ outcome.logged # Undefined
        /\ Active(p)
        /\ OwnCalls(inflight, p) = 0
        /\ injectionState[p].error # Null
        /\ injectionState[p].error.msg = outcome.logged.msg
        /\ injectedProps[p] = Undefined
        /\ injectionState[c.prop] = [loading |-> TRUE, error |-> Null]
        /\ injectedProps[c.prop] = Undefined

\* ------------------------------------------------ RouteResourceBoundView

\* Object.keys(state): the props in the order their entries were created.
KeyOrder == <<"invoice", "product">>

\* route.meta._injectionState as the view may find it: absent, or with an
\* entry { loading, error } for some of the props.
ViewErrors == {ToError(e) : e \in Rejections}
ViewStates ==
    {Undefined}
    \cup [Props -> {Undefined} \cup [loading : BOOLEAN, error : {Null} \cup ViewErrors]]

\* `state[key]?.error` is truthy / `state[key]?.loading` is truthy
HasError(state, key) == state[key] # Undefined /\ state[key].error # Null
IsLoading(state, key) == state[key] # Undefined /\ state[key].loading

\* Mutant: firstError looks at the first key only.
FirstError_FirstKeyOnly(state) ==
    IF state = Undefined THEN Null
    ELSE IF HasError(state, KeyOrder[1]) THEN state[KeyOrder[1]].error ELSE Null

\* computed firstError
FirstError(state) ==
    IF state = Undefined THEN Null
    ELSE LET errored == {i \in 1..Len(KeyOrder) : HasError(state, KeyOrder[i])}
         IN IF errored = {} THEN Null
            ELSE state[KeyOrder[CHOOSE i \in errored : \A j \in errored : i <= j]].error

\* computed anyLoading
AnyLoading(state) ==
    IF state = Undefined THEN FALSE
    ELSE \E i \in 1..Len(KeyOrder) : IsLoading(state, KeyOrder[i])

\* Mutant: every prop with an entry is retried.
ErroredProps_All(state) ==
    SelectSeq(KeyOrder, LAMBDA key : state[key] # Undefined)

\* `Object.keys(state).filter((key) => state[key]?.error)`
ErroredProps(state) ==
    SelectSeq(KeyOrder, LAMBDA key : HasError(state, key))

\* The vnodes renderContent returns.
ErrorComponentView(error) == [kind |-> "errorComponent", error |-> error, refresh |-> TRUE]
ErrorSlotView(error) == [kind |-> "errorSlot", error |-> error, refresh |-> TRUE]
LoadingComponentView == [kind |-> "loadingComponent"]
LoadingSlotView == [kind |-> "loadingSlot"]
DefaultSlotView(Component) == [kind |-> "defaultSlot", Component |-> Component]
ComponentView == [kind |-> "component"]
NothingView == [kind |-> "undefined"]

\* `resolvedRoute.meta._lazy !== false`
IsLazy(resolvedRoute) == resolvedRoute.meta._lazy # False

\* renderContent(Component, resolvedRoute), with the slots of the view and
\* the injection state of the route.
RenderContent(Component, resolvedRoute, state, given) ==
    IF IsLazy(resolvedRoute) /\ FirstError(state) # Null
    THEN IF resolvedRoute.meta._errorComponent THEN ErrorComponentView(FirstError(state))
         ELSE IF "error" \in given THEN ErrorSlotView(FirstError(state))
         ELSE NothingView
    ELSE IF IsLazy(resolvedRoute) /\ AnyLoading(state)
    THEN IF resolvedRoute.meta._loadingComponent THEN LoadingComponentView
         ELSE IF "loading" \in given THEN LoadingSlotView
         ELSE NothingView
    ELSE IF "default" \in given THEN DefaultSlotView(Component)
    ELSE IF Component THEN ComponentView
    ELSE NothingView

\* The route definitions the view is looked at with: inject block under meta.
ViewRouteDefs ==
    {RouteDef(c, {}, Props, l, e, ld) :
        c \in BOOLEAN, l \in {Undefined, True, False}, e \in BOOLEAN, ld \in BOOLEAN}

\* A view mounted on a route built by defineRoute, whose meta holds any
\* injection state (as the tests' mock route does) and a refresh helper.
InitView ==
    /\ definition \in ViewRouteDefs
    /\ route = DefineRoute(definition)
    /\ slots \in SUBSET {"default", "loading", "error"}
    /\ rendered = NotRendered
    /\ refreshCalls = <<>>
    /\ injectable = route.meta.inject
    /\ injectionState \in ViewStates
    /\ cache = [p \in Props |-> Undefined]
    /\ injectedProps = [p \in Props |-> Undefined]
    /\ resolvers = [p \in Props |-> NoParam]
    /\ inflight = EmptyBag
    /\ outcome = [of |-> "none", kind |-> "none", value |-> Undefined, logged |-> Undefined]
    /\ trip = NoTrip
    /\ PaginatorAbsent
    /\ FormsAbsent

\* The view's render function: RouterView hands it the matched component and
\* the route.
Render ==
    /\ rendered' = RenderContent(route.component, route, injectionState, slots)
    /\ UNCHANGED <<vars, definition, route, slots, refreshCalls, pagVars, formVars>>

\* The refresh handed to the error view, up to its await: route.meta.refresh
\* is called once per errored prop.
ViewRefresh ==
    /\ refreshCalls' = IF injectionState = Undefined THEN <<>>
                       ELSE ErroredProps(injectionState)
    /\ UNCHANGED <<vars, definition, route, slots, rendered, pagVars, formVars>>

NextView == Render \/ ViewRefresh

SpecView == InitView /\ [][NextView]_<<vars, viewVars, pagVars, formVars>>

\* ------------------------------------------------- claims on the view

\* Some prop of the route's injection state has an error / is loading.
SomeError ==
    /\ injectionState # Undefined
    /\ \E p \in Props : injectionState[p] # Undefined /\ injectionState[p].error # Null
SomeLoading ==
    /\ injectionState # Undefined
    /\ \E p \in Props : injectionState[p] # Undefined /\ injectionState[p].loading

\* What has been rendered is the default content: the default slot when one
\* is given, else the matched component when there is one.
DefaultContentRendered ==
    rendered.kind = (IF "default" \in slots THEN "defaultSlot"
                     ELSE IF route.component THEN "component" ELSE "undefined")

\* C15: view selection with lazy not false.  If some injected prop has an
\* error the error view is rendered (the route's errorComponent, else the
\* error slot) with the error of one of the props, also when a prop is
\* loading; otherwise, if some prop is loading, the loading view
\* (loadingComponent, else the loading slot); otherwise the default content,
\* which is also what is rendered when the route has no injection state.
C15_ViewSelection ==
    (rendered # NotRendered /\ route.meta._lazy # False)
    => IF SomeError
       THEN /\ rendered.kind = (IF route.meta._errorComponent THEN "errorComponent"
                                ELSE IF "error" \in slots THEN "errorSlot"
                                ELSE "undefined")
            /\ rendered.kind # "undefined"
               => /\ rendered.refresh
                  /\ \E p \in Props : /\ injectionState[p] # Undefined
                                      /\ injectionState[p].error = rendered.error
       ELSE IF SomeLoading
       THEN rendered.kind = (IF route.meta._loadingComponent THEN "loadingComponent"
                             ELSE IF "loading" \in slots THEN "loadingSlot"
                             ELSE "undefined")
       ELSE DefaultContentRendered

\* The error slot has been rendered while one prop has an error and another
\* is loading, on a route that says nothing about lazy.
C15_Witness ==
    /\ rendered # NotRendered
    /\ rendered.kind = "errorSlot"
    /\ route.meta._lazy = Undefined
    /\ injectionState # Undefined
    /\ \E p, q \in Props :
          /\ injectionState[p] # Undefined /\ injectionState[q] # Undefined
          /\ injectionState[p].error = Null /\ injectionState[p].loading
          /\ injectionState[q].error # Null

\* C16: lazy: false renders the target immediately.  A route defined with
\* lazy: false has meta._lazy = false after defineRoute, and the view renders
\* the default content for it whatever the loading/error state of the props.
C16_NotLazy ==
    definition.lazy = False
    => /\ route.meta._lazy = False
       /\ rendered # NotRendered => DefaultContentRendered

\* The default slot has been rendered on a route defined with lazy: false
\* that names an error component, while a prop has an error and one is loading.
C16_Witness ==
    /\ definition.lazy = False
    /\ definition.errorComponent
    /\ rendered # NotRendered
    /\ rendered.kind = "defaultSlot"
    /\ SomeError
    /\ SomeLoading

\* C17: the refresh handed to the error view retries the failed resources
\* and only those.  One call of it calls route.meta.refresh once for every
\* prop whose error is set when it is called, and for no other prop.
C17_RefreshRetriesErrored ==
    [][ViewRefresh
       => \A p \in Props :
             Cardinality({i \in 1..Len(refreshCalls') : refreshCalls'[i] = p})
             = (IF /\ injectionState # Undefined
                   /\ injectionState[p] # Undefined
                   /\ injectionState[p].error # Null
                THEN 1 ELSE 0)]_<<vars, viewVars, pagVars, formVars>>

\* The refresh has retried exactly one prop, the other having an entry
\* without an error.
C17_Witness ==
    /\ Len(refreshCalls) = 1
    /\ injectionState # Undefined
    /\ \E p \in Props :
          /\ p # refreshCalls[1]
          /\ injectionState[p] # Undefined
          /\ injectionState[p].error = Null
    /\ injectionState[refreshCalls[1]].error # Null

\* ------------------------------------ routes built by defineRoute, guarded

\* Route definitions with one inject entry, written at the top level of the
\* definition (as defineRoute's parameter type and usage example have it) or
\* under meta (as the guard's tests have it).
InjectRouteDefs ==
    {RouteDef(TRUE, {p}, {}, Undefined, FALSE, FALSE) : p \in Props}
    \cup {RouteDef(TRUE, {}, {p}, Undefined, FALSE, FALSE) : p \in Props}

\* A router with the guard installed and one route, built by defineRoute.
InitDefined ==
    /\ definition \in InjectRouteDefs
    /\ route = DefineRoute(definition)
    /\ slots = {}
    /\ rendered = NotRendered
    /\ refreshCalls = <<>>
    /\ injectable = route.meta.inject
    /\ cache = [p \in Props |-> Undefined]
    /\ injectedProps = [p \in Props |-> Undefined]
    /\ injectionState = [p \in Props |-> Undefined]
    /\ resolvers = [p \in Props |-> NoParam]
    /\ inflight = EmptyBag
    /\ outcome = [of |-> "none", kind |-> "none", value |-> Undefined, logged |-> Undefined]
    /\ trip = NoTrip
    /\ PaginatorAbsent
    /\ FormsAbsent

\* What the guard finds for a navigation to the record with these params:
\* `record.meta.inject` is where it looks for the entries.
TargetOf(record, params) ==
    [p \in Props |-> IF p \in record.meta.inject THEN params[p]
                     ELSE [kind |-> "noInject"]]

\* A navigation to the route, params[p] being the value of the param that the
\* inject entry of p names.
NavigateDefined(params) ==
    /\ Navigate(TargetOf(route, params))
    /\ UNCHANGED <<viewVars, pagVars, formVars>>

NextDefined ==
    \/ \E params \in [Props -> RawParams] : NavigateDefined(params)
    \/ \E p \in Props, silent \in BOOLEAN : Refresh(p, silent) /\ UNCHANGED <<viewVars, pagVars, formVars>>
    \/ \E p \in Props : RefreshNoResolver(p) /\ UNCHANGED <<viewVars, pagVars, formVars>>
    \/ \E c \in BagToSet(inflight), ver \in 1..MaxVer :
           SettleFulfilled(c, ver) /\ UNCHANGED <<viewVars, pagVars, formVars>>
    \/ \E c \in BagToSet(inflight), e \in Rejections :
           SettleRejected(c, e) /\ UNCHANGED <<viewVars, pagVars, formVars>>

SpecDefined == InitDefined /\ [][NextDefined]_<<vars, viewVars, pagVars, formVars>>

\* C18 (as claimed): a route built with defineRoute from a definition with a
\* top-level inject block has its injections resolved by the guard: a
\* navigation to it with a value for the prop's param, nothing being cached,
\* invokes resolve for the prop.
C18_TopLevelInjectResolved ==
    [][\A params \in [Props -> RawParams], p \in Props :
          (/\ NavigateDefined(params)
           /\ p \in definition.inject
           /\ ParamValue(params[p]) # NoParam
           /\ cache[p] = Undefined)
          => /\ Invoked(p) = 1
             /\ resolvers'[p] = ParamValue(params[p])]_<<vars, viewVars, pagVars, formVars>>

\* ------------------------------------------------- paginator: operations
MaxPage == 3        \* page numbers asked for are 0..MaxPage
MaxFetches == 2     \* dataDriver.get promises pending at once
MaxData == 4        \* items an accumulating view driver holds

\* VueBaseViewDriver.setData / setTotal
ViewSetData(vd, data) == [vd EXCEPT !.data = data]
ViewSetTotal(vd, value) == [vd EXCEPT !.total = value]

\* The page-aware view driver: setPage, setPageSize store the value;
\* getLastPage is the number of pages of `total` items at `pageSize`.
ViewSetPage(vd, value) == [vd EXCEPT !.currentPage = value]
ViewSetPageSize(vd, value) == [vd EXCEPT !.pageSize = value]
ViewLastPage(vd) == (vd.total + vd.pageSize - 1) \div vd.pageSize

\* Mutant: flush resets the total along with the data.
Flushed_ClearsTotal(vd) == ViewSetTotal(ViewSetData(vd, <<>>), 0)

\* BasePaginator.flush, on the view driver
Flushed(vd) == ViewSetData(vd, <<>>)

\* Mutant: the page's results are appended to what the view driver holds.
PassDataToViewDriver_Append(vd, dto, options) ==
    ViewSetTotal(ViewSetData(vd, vd.data \o dto.data), dto.total)

\* BasePaginator.passDataToViewDriver
PassDataToViewDriver(vd, dto, options) ==
    LET v == IF options.flush THEN Flushed(vd) ELSE vd
    IN ViewSetTotal(ViewSetData(v, dto.data), dto.total)

\* Mutant: the accumulating load path replaces like the base class.
PassDataAccumulating_Replace(vd, dto, options) ==
    LET v == IF options.flush THEN Flushed(vd) ELSE vd
    IN ViewSetTotal(ViewSetData(v, dto.data), dto.total)

\* InfiniteScroller.passDataToViewDriver, and
\* StatePaginator.passStateDataToViewDriver, which has the same body
PassDataAccumulating(vd, dto, options) ==
    LET v == IF options.flush THEN Flushed(vd) ELSE vd
    IN ViewSetTotal(
           IF options.replace THEN ViewSetData(v, dto.data)
           ELSE ViewSetData(v, v.data \o dto.data),
           dto.total)

\* The pending promise of dataDriver.get(pageNumber, pageSize) and what its
\* `.then` closure holds.
PageFetch(pageNumber, pageSize, options) ==
    [driver |-> dataDriver, page |-> pageNumber, size |-> pageSize,
     state |-> NoState, options |-> options]

\* The pending promise of dataDriver.get(this.currentState).
StateFetch(state, options) ==
    [driver |-> dataDriver, page |-> 0, size |-> 0,
     state |-> state, options |-> options]

\* The promise an operation returned is pending / the last step was a
\* synchronous operation.
Pending(op) == [op |-> op, kind |-> "pending"]
Returned(op) == [op |-> op, kind |-> "returned"]

\* The promise of a load has settled, after its `.then` if it fulfilled.
Fulfilled == [op |-> "then", kind |-> "fulfilled"]
Rejected == [op |-> "then", kind |-> "rejected"]

\* PageAwarePaginator.loadData up to the return of the promise: the view
\* driver vd is what the caller has made of it.
LoadData(by, vd, pageNumber, pageSize, options) ==
    /\ BagCardinality(fetches) < MaxFetches
    /\ viewDriver' = vd
    /\ fetches' = fetches (+) SetToBag({PageFetch(pageNumber, pageSize, options)})
    /\ called' = Pending(by)

\* PageAwarePaginator.setPage
SetPageBy(by, pageNumber, options) ==
    /\ pageNumber \in 0..MaxPage
    /\ LET vd == ViewSetPage(viewDriver, pageNumber)
       IN LoadData(by, vd, vd.currentPage, vd.pageSize, options)
    /\ UNCHANGED <<paginator, initialized, dataDriver, currentState>>

SetPage(pageNumber, options) ==
    /\ paginator \in PageAware
    /\ SetPageBy("setPage", pageNumber, options)

ToNextPage ==
    /\ paginator \in PageAware
    /\ SetPageBy("toNextPage", viewDriver.currentPage + 1, NoOptions)

ToFirstPage ==
    /\ paginator \in PageAware
    /\ SetPageBy("toFirstPage", 1, NoOptions)

ToLastPage ==
    /\ paginator \in PageAware
    /\ SetPageBy("toLastPage", ViewLastPage(viewDriver), NoOptions)

ToPreviousPage ==
    /\ paginator \in PageAware
    /\ SetPageBy("toPreviousPage", viewDriver.currentPage - 1, NoOptions)

\* Mutant: init starts the load and leaves the flag alone.
PageInit_NotMarked(pageNumber, pageSize) ==
    /\ paginator \in PageAware
    /\ initialized' = initialized
    /\ LoadData("init", viewDriver, viewDriver.currentPage, viewDriver.pageSize,
                NoOptions)
    /\ UNCHANGED <<paginator, dataDriver, currentState>>

\* PageAwarePaginator.init(pageNumber, pageSize); 0 stands for an argument
\* that is not truthy.
PageInit(pageNumber, pageSize) ==
    /\ paginator \in PageAware
    /\ initialized' = TRUE
    /\ IF pageNumber # 0 /\ pageSize # 0
       THEN LoadData("init", viewDriver, pageNumber, pageSize, NoOptions)
       ELSE LoadData("init", viewDriver, viewDriver.currentPage,
                     viewDriver.pageSize, NoOptions)
    /\ UNCHANGED <<paginator, dataDriver, currentState>>

\* PageAwarePaginator.refresh(undefined, options); refresh(pageNumber, options)
\* is setPage(pageNumber, options).
PageRefresh(options) ==
    /\ paginator \in PageAware
    /\ LoadData("refresh", viewDriver, viewDriver.currentPage, viewDriver.pageSize,
                options)
    /\ UNCHANGED <<paginator, initialized, dataDriver, currentState>>

\* PageAwarePaginator.setPageSize
SetPageSize(pageSize) ==
    /\ paginator \in PageAware
    /\ LET vd == ViewSetPageSize(viewDriver, pageSize)
       IN IF vd.currentPage * pageSize > vd.total
          THEN LET first == ViewSetPage(vd, 1)
               IN LoadData("setPageSize", first, first.currentPage, first.pageSize,
                           NoOptions)
          ELSE LoadData("setPageSize", vd, vd.currentPage, vd.pageSize, NoOptions)
    /\ UNCHANGED <<paginator, initialized, dataDriver, currentState>>

\* StatePaginator.loadData up to the return of the promise.
LoadStateData(by, state, options) ==
    /\ BagCardinality(fetches) < MaxFetches
    /\ fetches' = fetches (+) SetToBag({StateFetch(state, options)})
    /\ called' = Pending(by)

\* StatePaginator.init
StateInit ==
    /\ paginator = "StatePaginator"
    /\ initialized' = TRUE
    /\ currentState' = NoState
    /\ LoadStateData("init", NoState, NoOptions)
    /\ UNCHANGED <<paginator, dataDriver, viewDriver>>

\* Mutant: refresh reloads and keeps the token it holds.
StateRefresh_KeepsToken(options) ==
    /\ paginator = "StatePaginator"
    /\ LoadStateData("refresh", currentState, [options EXCEPT !.flush = TRUE])
    /\ UNCHANGED <<paginator, initialized, dataDriver, currentState, viewDriver>>

\* Mutant: refresh hands the options on as given, without flush.
StateRefresh_NoFlush(options) ==
    /\ paginator = "StatePaginator"
    /\ currentState' = NoState
    /\ LoadStateData("refresh", NoState, options)
    /\ UNCHANGED <<paginator, initialized, dataDriver, viewDriver>>

\* Mutant: refresh flushes the view driver itself, before it sends the request.
StateRefresh_FlushesFirst(options) ==
    /\ paginator = "StatePaginator"
    /\ currentState' = NoState
    /\ viewDriver' = Flushed(viewDriver)
    /\ LoadStateData("refresh", NoState, [options EXCEPT !.flush = TRUE])
    /\ UNCHANGED <<paginator, initialized, dataDriver>>

\* StatePaginator.refresh(options): { ...options, flush: true }
StateRefresh(options) ==
    /\ paginator = "StatePaginator"
    /\ currentState' = NoState
    /\ LoadStateData("refresh", NoState, [options EXCEPT !.flush = TRUE])
    /\ UNCHANGED <<paginator, initialized, dataDriver, viewDriver>>

\* Mutant: loadNext asks for the first page again.
LoadNext_FromStart ==
    /\ paginator = "StatePaginator"
    /\ LoadStateData("loadNext", NoState, NoOptions)
    /\ UNCHANGED <<paginator, initialized, dataDriver, currentState, viewDriver>>

\* StatePaginator.loadNext
LoadNext ==
    /\ paginator = "StatePaginator"
    /\ LoadStateData("loadNext", currentState, NoOptions)
    /\ UNCHANGED <<paginator, initialized, dataDriver, currentState, viewDriver>>

\* setDataDriver of either class
SetDataDriver(d) ==
    /\ paginator \in PaginatorClasses
    /\ dataDriver' = d
    /\ called' = Returned("setDataDriver")
    /\ UNCHANGED <<paginator, initialized, currentState, viewDriver, fetches>>

\* BasePaginator.flush
Flush ==
    /\ paginator \in PaginatorClasses
    /\ viewDriver' = Flushed(viewDriver)
    /\ called' = Returned("flush")
    /\ UNCHANGED <<paginator, initialized, dataDriver, currentState, fetches>>

\* The promise of a dataDriver.get fulfils: the `.then` callback of loadData.
FetchFulfilled(f) ==
    /\ BagIn(f, fetches)
    /\ fetches' = fetches (-) SetToBag({f})
    /\ IF paginator = "StatePaginator"
       THEN LET value == StateGet(f.driver, f.state)
            IN /\ currentState' = value.state
               /\ viewDriver' = PassDataAccumulating(viewDriver, value, f.options)
               /\ called' = Fulfilled
       ELSE LET value == PageGet(f.driver, f.page, f.size)
            IN /\ currentState' = currentState
               /\ viewDriver' = IF paginator = "InfiniteScroller"
                                THEN PassDataAccumulating(viewDriver, value, f.options)
                                ELSE PassDataToViewDriver(viewDriver, value, f.options)
               /\ called' = Fulfilled
    /\ Len(viewDriver'.data) <= MaxData
    /\ UNCHANGED <<paginator, initialized, dataDriver>>

\* The promise of a dataDriver.get rejects: the `.then` callback is skipped
\* and the promise the operation returned rejects.
FetchRejected(f) ==
    /\ BagIn(f, fetches)
    /\ fetches' = fetches (-) SetToBag({f})
    /\ called' = Rejected
    /\ UNCHANGED <<paginator, initialized, dataDriver, currentState, viewDriver>>

\* Neither router nor view: a paginator on its own.
RouterAbsent ==
    /\ injectable = {}
    /\ cache = [p \in Props |-> Undefined]
    /\ injectedProps = [p \in Props |-> Undefined]
    /\ injectionState = [p \in Props |-> Undefined]
    /\ resolvers = [p \in Props |-> NoParam]
    /\ inflight = EmptyBag
    /\ outcome = [of |-> "none", kind |-> "none", value |-> Undefined, logged |-> Undefined]
    /\ trip = NoTrip
    /\ ViewUnmounted

\* new PageAwarePaginator(dataDriver, 1, pageSize) / new InfiniteScroller(..)
\* / new StatePaginator(dataDriver), of one of the given classes
Constructed(classes) ==
    /\ RouterAbsent
    /\ paginator \in classes
    /\ initialized = FALSE
    /\ dataDriver \in Drivers
    /\ currentState = NoState
    /\ viewDriver \in IF paginator \in PageAware
                      THEN {[data |-> <<>>, total |-> 0, currentPage |-> 1,
                             pageSize |-> s] : s \in PageSizes}
                      ELSE {[data |-> <<>>, total |-> 0]}
    /\ fetches = EmptyBag
    /\ called = NotCalled
    /\ requests = <<>>
    /\ FormsAbsent

\* A PageAwarePaginator or a StatePaginator whose caller awaits each load
\* before it asks for the next; flush and setDataDriver come at any time.
InitPaginator == Constructed({"PageAwarePaginator", "StatePaginator"})

Awaited == fetches = EmptyBag

NextPaginator ==
    \/ \E n \in 0..MaxPage, s \in {0} \cup PageSizes :
           Awaited /\ PageInit(n, s) /\ UNCHANGED <<vars, viewVars, requests, formVars>>
    \/ \E o \in LoadOptions :
           Awaited /\ PageRefresh(o) /\ UNCHANGED <<vars, viewVars, requests, formVars>>
    \/ \E n \in 0..MaxPage, o \in LoadOptions :
           Awaited /\ SetPage(n, o) /\ UNCHANGED <<vars, viewVars, requests, formVars>>
    \/ Awaited /\ ToNextPage /\ UNCHANGED <<vars, viewVars, requests, formVars>>
    \/ Awaited /\ ToFirstPage /\ UNCHANGED <<vars, viewVars, requests, formVars>>
    \/ Awaited /\ ToLastPage /\ UNCHANGED <<vars, viewVars, requests, formVars>>
    \/ Awaited /\ ToPreviousPage /\ UNCHANGED <<vars, viewVars, requests, formVars>>
    \/ \E s \in PageSizes :
           Awaited /\ SetPageSize(s) /\ UNCHANGED <<vars, viewVars, requests, formVars>>
    \/ Awaited /\ StateInit /\ UNCHANGED <<vars, viewVars, requests, formVars>>
    \/ \E o \in LoadOptions :
           Awaited /\ StateRefresh(o) /\ UNCHANGED <<vars, viewVars, requests, formVars>>
    \/ Awaited /\ LoadNext /\ UNCHANGED <<vars, viewVars, requests, formVars>>
    \/ \E d \in Drivers : SetDataDriver(d) /\ UNCHANGED <<vars, viewVars, requests, formVars>>
    \/ Flush /\ UNCHANGED <<vars, viewVars, requests, formVars>>
    \/ \E f \in BagToSet(fetches) : FetchFulfilled(f) /\ UNCHANGED <<vars, viewVars, requests, formVars>>
    \/ \E f \in BagToSet(fetches) : FetchRejected(f) /\ UNCHANGED <<vars, viewVars, requests, formVars>>

SpecPaginator == InitPaginator /\ [][NextPaginator]_<<vars, viewVars, pagVars, formVars>>

\* ------------------------------------------------ claims on the paginators

\* The step is a call of init, of either class.
InitCalled ==
    \/ \E n \in 0..MaxPage, s \in {0} \cup PageSizes : PageInit(n, s)
    \/ StateInit

\* C19: paginator initialisation is one-way.  isInitialized() is false as
\* long as no operation has been called and turns true only in a call of
\* init; it is true when init returns, its fetch still pending; and no step
\* (flush, refresh, a page change, loadNext, setDataDriver, another init, a
\* fetch that fulfils or rejects) turns it false again.
C19_InitOneWay ==
    [][/\ called = NotCalled => ~initialized
       /\ InitCalled => (initialized' /\ fetches' # EmptyBag)
       /\ (~initialized /\ initialized') => InitCalled
       /\ initialized => initialized']_<<vars, viewVars, pagVars, formVars>>

\* init has been called and its fetch has rejected, no fetch having ever
\* fulfilled: the paginator is initialized.
C19_Witness ==
    /\ initialized
    /\ called = Rejected
    /\ viewDriver.total = 0
    /\ fetches = EmptyBag

\* The step added exactly one pending dataDriver.get, asking the current data
\* driver for the view driver's page and page size as they are after the step.
OneGetForCurrentPage(options) ==
    fetches' = fetches (+) SetToBag({[driver |-> dataDriver,
                                      page |-> viewDriver'.currentPage,
                                      size |-> viewDriver'.pageSize,
                                      state |-> NoState,
                                      options |-> options]})

\* C20: page-based loads replace.  In a PageAwarePaginator each of setPage,
\* toNextPage, toPreviousPage, toFirstPage and toLastPage moves the view
\* driver to the page asked for (toNextPage to the page after the current
\* one), issues exactly one dataDriver.get for that page at the current page
\* size and leaves data and total alone; when a get fulfils, the view data is
\* exactly the results of that response and the total is its total.
C20_PageLoadsReplace ==
    [][paginator = "PageAwarePaginator" =>
         /\ \A n \in 0..MaxPage, o \in LoadOptions :
               SetPage(n, o) => (viewDriver'.currentPage = n /\ OneGetForCurrentPage(o))
         /\ ToNextPage => /\ viewDriver'.currentPage = viewDriver.currentPage + 1
                          /\ OneGetForCurrentPage(NoOptions)
         /\ ToPreviousPage => /\ viewDriver'.currentPage = viewDriver.currentPage - 1
                              /\ OneGetForCurrentPage(NoOptions)
         /\ ToFirstPage => (viewDriver'.currentPage = 1 /\ OneGetForCurrentPage(NoOptions))
         /\ ToLastPage => OneGetForCurrentPage(NoOptions)
         /\ (\/ \E n \in 0..MaxPage, o \in LoadOptions : SetPage(n, o)
             \/ ToNextPage \/ ToPreviousPage \/ ToFirstPage \/ ToLastPage)
            => /\ viewDriver'.data = viewDriver.data
               /\ viewDriver'.total = viewDriver.total
               /\ viewDriver'.pageSize = viewDriver.pageSize
         /\ \A f \in BagToSet(fetches) :
               FetchFulfilled(f)
               => /\ viewDriver'.data = PageGet(f.driver, f.page, f.size).data
                  /\ viewDriver'.total = PageGet(f.driver, f.page, f.size).total
                  /\ viewDriver'.currentPage = viewDriver.currentPage
       ]_<<vars, viewVars, pagVars, formVars>>

\* A load of page 2 at page size 2 has fulfilled where something else was
\* displayed before: the view data is the one item of that page, the total 3.
C20_Witness ==
    /\ paginator = "PageAwarePaginator"
    /\ called = Fulfilled
    /\ viewDriver.currentPage = 2
    /\ viewDriver.pageSize = 2
    /\ viewDriver.data = <<3>>
    /\ viewDriver.total = 3

\* ------------------------------------------------------- InfiniteScroller
\* An InfiniteScroller whose caller awaits each load before it asks for the
\* next: init, setPage, toNextPage, refresh, flush.
InitScroller == Constructed({"InfiniteScroller"})

NextScroller ==
    \/ \E n \in 0..MaxPage, s \in {0} \cup PageSizes :
           Awaited /\ PageInit(n, s) /\ UNCHANGED <<vars, viewVars, requests, formVars>>
    \/ \E o \in LoadOptions :
           Awaited /\ PageRefresh(o) /\ UNCHANGED <<vars, viewVars, requests, formVars>>
    \/ \E n \in 0..MaxPage, o \in LoadOptions :
           Awaited /\ SetPage(n, o) /\ UNCHANGED <<vars, viewVars, requests, formVars>>
    \/ Awaited /\ ToNextPage /\ UNCHANGED <<vars, viewVars, requests, formVars>>
    \/ Flush /\ UNCHANGED <<vars, viewVars, requests, formVars>>
    \/ \E f \in BagToSet(fetches) : FetchFulfilled(f) /\ UNCHANGED <<vars, viewVars, requests, formVars>>
    \/ \E f \in BagToSet(fetches) : FetchRejected(f) /\ UNCHANGED <<vars, viewVars, requests, formVars>>

SpecScroller == InitScroller /\ [][NextScroller]_<<vars, viewVars, pagVars, formVars>>

\* C21: InfiniteScroller appends.  toNextPage (and setPage) of an
\* InfiniteScroller asks for one page and leaves the view data in place; when
\* the page arrives, the view data is the data held before followed by the
\* page's results, unless the load was given replace or flush, and then the
\* view data is exactly the page's results; the total is the response's.
C21_ScrollerAppends ==
    [][paginator = "InfiniteScroller" =>
         /\ ToNextPage => /\ viewDriver'.currentPage = viewDriver.currentPage + 1
                          /\ OneGetForCurrentPage(NoOptions)
                          /\ viewDriver'.data = viewDriver.data
         /\ \A n \in 0..MaxPage, o \in LoadOptions :
               SetPage(n, o) => /\ OneGetForCurrentPage(o)
                                /\ viewDriver'.data = viewDriver.data
         /\ \A f \in BagToSet(fetches) :
               FetchFulfilled(f)
               => LET page == PageGet(f.driver, f.page, f.size)
                  IN /\ viewDriver'.data =
                          IF f.options.replace \/ f.options.flush
                          THEN page.data
                          ELSE viewDriver.data \o page.data
                     /\ viewDriver'.total = page.total
       ]_<<vars, viewVars, pagVars, formVars>>

\* Page 1 at page size 2 was displayed and toNextPage has fulfilled: the one
\* item of page 2 stands after the two of page 1.
C21_Witness ==
    /\ paginator = "InfiniteScroller"
    /\ called = Fulfilled
    /\ viewDriver.currentPage = 2
    /\ viewDriver.pageSize = 2
    /\ viewDriver.data = <<1, 2, 3>>

\* --------------------------------------------------------- StatePaginator
\* A StatePaginator whose caller does not wait: init, refresh and loadNext
\* are called while an earlier load is pending (one at most), and the pending
\* loads settle in any order.
InitCursor == Constructed({"StatePaginator"})

OneAhead == \A f \in BagToSet(fetches) : fetches = SetToBag({f})

NextCursor ==
    \/ OneAhead /\ StateInit /\ UNCHANGED <<vars, viewVars, requests, formVars>>
    \/ \E o \in LoadOptions :
           OneAhead /\ StateRefresh(o) /\ UNCHANGED <<vars, viewVars, requests, formVars>>
    \/ OneAhead /\ LoadNext /\ UNCHANGED <<vars, viewVars, requests, formVars>>
    \/ \E d \in Drivers : SetDataDriver(d) /\ UNCHANGED <<vars, viewVars, requests, formVars>>
    \/ Flush /\ UNCHANGED <<vars, viewVars, requests, formVars>>
    \/ \E f \in BagToSet(fetches) : FetchFulfilled(f) /\ UNCHANGED <<vars, viewVars, requests, formVars>>
    \/ \E f \in BagToSet(fetches) : FetchRejected(f) /\ UNCHANGED <<vars, viewVars, requests, formVars>>

SpecCursor == InitCursor /\ [][NextCursor]_<<vars, viewVars, pagVars, formVars>>

\* StatePaginator.hasNextPage
HasNextPage == currentState # NoState

\* The step is the `.then` callback of some pending fetch.
SomeFetchFulfilled == \E f \in BagToSet(fetches) : FetchFulfilled(f)

\* C22 as claimed: hasNextPage() is true exactly when the most recently
\* completed fetch returned a non-null token.  It is false before any fetch
\* has completed, takes the value "the token returned is not null" when a
\* fetch completes, and no other step (a refresh() whose fetch is in flight
\* included) changes it.
C22_TracksLastFetch ==
    [][paginator = "StatePaginator" =>
         /\ called = NotCalled => ~HasNextPage
         /\ \A f \in BagToSet(fetches) :
               FetchFulfilled(f)
               => (HasNextPage' <=> StateGet(f.driver, f.state).state # NoState)
         /\ ~SomeFetchFulfilled => (HasNextPage' <=> HasNextPage)
       ]_<<vars, viewVars, pagVars, formVars>>

\* C22 amended: hasNextPage() is true exactly when a non-null token is held.
\* The token held is the one the most recently fulfilled fetch returned,
\* except that init() and refresh() reset it to null at once: from such a
\* call until the next fetch fulfils hasNextPage() is false.  flush,
\* setDataDriver, the call of loadNext and a rejected fetch leave it alone.
C22_HasNextIffTokenHeld ==
    [][paginator = "StatePaginator" =>
         /\ called = NotCalled => ~HasNextPage
         /\ \A f \in BagToSet(fetches) :
               FetchFulfilled(f)
               => (HasNextPage' <=> StateGet(f.driver, f.state).state # NoState)
         /\ (StateInit \/ \E o \in LoadOptions : StateRefresh(o)) => ~HasNextPage'
         /\ (\/ LoadNext \/ Flush
             \/ \E d \in Drivers : SetDataDriver(d)
             \/ \E f \in BagToSet(fetches) : FetchRejected(f))
            => (HasNextPage' <=> HasNextPage)
       ]_<<vars, viewVars, pagVars, formVars>>

\* A fetch returned the token t1, refresh() was called and its fetch is in
\* flight: no token is held.
C22_Witness ==
    /\ paginator = "StatePaginator"
    /\ called = Pending("refresh")
    /\ viewDriver.data = <<1>>
    /\ fetches # EmptyBag
    /\ ~HasNextPage

\* C23: StatePaginator.refresh() restarts from the first page.  refresh()
\* sends one request with the null token to the current data driver, and only
\* refresh() sends a request that flushes; when that request fulfils, the view
\* data is exactly the data of its response (what had accumulated is gone),
\* the total is the response's total and the token held is the token the
\* response returned.
C23_RefreshRestarts ==
    [][paginator = "StatePaginator" =>
         /\ \A o \in LoadOptions :
               StateRefresh(o)
               => fetches' = fetches (+) SetToBag({[driver |-> dataDriver,
                                 page |-> 0, size |-> 0, state |-> NoState,
                                 options |-> [flush |-> TRUE, replace |-> o.replace]]})
         /\ (StateInit \/ LoadNext)
            => \E f \in BagToSet(fetches') :
                   /\ fetches' = fetches (+) SetToBag({f})
                   /\ ~f.options.flush
         /\ \A f \in BagToSet(fetches) :
               (FetchFulfilled(f) /\ f.options.flush)
               => LET response == StateGet(f.driver, NoState)
                  IN /\ f.state = NoState
                     /\ viewDriver'.data = response.data
                     /\ viewDriver'.total = response.total
                     /\ currentState' = response.state
       ]_<<vars, viewVars, pagVars, formVars>>

\* Two pages have accumulated, refresh() was called with no other load in
\* flight and its request, with the null token and flush, is the one pending.
C23_Witness ==
    /\ paginator = "StatePaginator"
    /\ called = Pending("refresh")
    /\ viewDriver.data = <<1, 2>>
    /\ currentState = NoState
    /\ fetches = SetToBag({[driver |-> "d1", page |-> 0, size |-> 0,
                            state |-> NoState,
                            options |-> [flush |-> TRUE, replace |-> FALSE]]})

\* C24: flush() frame condition.  On a PageAwarePaginator and on a
\* StatePaginator flush() empties the view driver's data and changes nothing
\* else: no request is sent to the data driver and none is dropped, and the
\* data driver, the current page and page size, the token held and
\* hasNextPage(), the total and the initialized flag are as before.
C24_FlushFrame ==
    [][Flush =>
         /\ viewDriver'.data = <<>>
         /\ viewDriver' = [viewDriver EXCEPT !.data = <<>>]
         /\ viewDriver'.total = viewDriver.total
         /\ paginator \in PageAware
            => /\ viewDriver'.currentPage = viewDriver.currentPage
               /\ viewDriver'.pageSize = viewDriver.pageSize
         /\ fetches' = fetches
         /\ dataDriver' = dataDriver
         /\ currentState' = currentState
         /\ HasNextPage' <=> HasNextPage
         /\ initialized' = initialized
       ]_<<vars, viewVars, pagVars, formVars>>

\* A StatePaginator that held the first page of d1 has been flushed: no data,
\* the total 3 and the token t1 still there.
C24_Witness ==
    /\ paginator = "StatePaginator"
    /\ called = Returned("flush")
    /\ viewDriver = [data |-> <<>>, total |-> 3]
    /\ currentState = "t1"
    /\ initialized

\* ------------------------------------------- StatePaginator: init, loadNext
MaxRequests == 5    \* calls of dataDriver.get in one run of init and loadNext

\* The step sent one request, which is recorded with the token passed.
RequestSent ==
    \E f \in BagToSet(fetches') :
        /\ fetches' = fetches (+) SetToBag({f})
        /\ requests' = Append(requests, [state |-> f.state, kind |-> "pending"])

\* The last request settles.
RequestSettled(kind) ==
    requests' = [requests EXCEPT ![Len(requests)].kind = kind]

\* A new StatePaginator whose caller calls init() and then loadNext() again
\* and again, each awaited before the next; a load that rejects is followed
\* by the next loadNext() all the same.
NextChain ==
    \/ /\ called = NotCalled
       /\ StateInit /\ RequestSent
       /\ UNCHANGED <<vars, viewVars, formVars>>
    \/ /\ initialized /\ Awaited /\ Len(requests) < MaxRequests
       /\ LoadNext /\ RequestSent
       /\ UNCHANGED <<vars, viewVars, formVars>>
    \/ \E f \in BagToSet(fetches) :
           FetchFulfilled(f) /\ RequestSettled("fulfilled") /\ UNCHANGED <<vars, viewVars, formVars>>
    \/ \E f \in BagToSet(fetches) :
           FetchRejected(f) /\ RequestSettled("rejected") /\ UNCHANGED <<vars, viewVars, formVars>>

SpecChain == InitCursor /\ [][NextChain]_<<vars, viewVars, pagVars, formVars>>

\* The response to the i-th request.
ResponseTo(i) == StateGet(dataDriver, requests[i].state)

\* The data of the responses to the first n requests, in request order.
RECURSIVE ResponsesData(_)
ResponsesData(n) ==
    IF n = 0 THEN <<>> ELSE ResponsesData(n - 1) \o ResponseTo(n).data

\* The number of requests answered: all, or all but the pending last one.
Answered ==
    IF requests # <<>> /\ requests[Len(requests)].kind = "pending"
    THEN Len(requests) - 1 ELSE Len(requests)

\* C25: cursor token chain.  After init() and k awaited loadNext() calls, none
\* of which rejected, the first request passed null and each later one the
\* token the response before it returned; once a load has fulfilled the token
\* held is the token of its response; and the view data is the data of the
\* responses received, concatenated in request order.
C25_TokenChain ==
    (/\ paginator = "StatePaginator"
     /\ requests # <<>>
     /\ \A i \in 1..Len(requests) : requests[i].kind # "rejected")
    => /\ requests[1].state = NoState
       /\ \A i \in 1..(Len(requests) - 1) :
             requests[i + 1].state = ResponseTo(i).state
       /\ Answered > 0 => currentState = ResponseTo(Answered).state
       /\ viewDriver.data = ResponsesData(Answered)

\* init() and two loadNext() on d1 have fulfilled: null, t1, t2 were passed,
\* the three pages are displayed in order and no token is left.
C25_Witness ==
    /\ paginator = "StatePaginator"
    /\ dataDriver = "d1"
    /\ requests = <<[state |-> NoState, kind |-> "fulfilled"],
                    [state |-> "t1", kind |-> "fulfilled"],
                    [state |-> "t2", kind |-> "fulfilled"]>>
    /\ viewDriver.data = <<1, 2, 3>>
    /\ currentState = NoState

\* ------------------------------------------------- FormDataBody: values
MaxItems == 2       \* elements of an array, properties of a nested object

\* JavaScript values, by type.  An object holds its own enumerable properties
\* in for..in order.
Str(s) == [type |-> "string", str |-> s]
Num(n) == [type |-> "number", num |-> n]
ValidDate == [type |-> "Date", valid |-> TRUE, iso |-> "1970-01-02T00:00:00.000Z"]
InvalidDate == [type |-> "Date", valid |-> FALSE, iso |-> "RangeError"]
File == [type |-> "Blob", name |-> "credentials.kdbx"]
Function == [type |-> "function"]
BigInt == [type |-> "bigint"]
Arr(items) == [type |-> "array", items |-> items]
Obj(props) == [type |-> "object", props |-> props]
Prop(key, value) == [key |-> key, value |-> value]

\* String(value) of a string, a number (an integer here) or a boolean.
Digit(d) ==
    CASE d = 0 -> "0" [] d = 1 -> "1" [] d = 2 -> "2" [] d = 3 -> "3"
      [] d = 4 -> "4" [] d = 5 -> "5" [] d = 6 -> "6" [] d = 7 -> "7"
      [] d = 8 -> "8" [] d = 9 -> "9"

RECURSIVE NumberToString(_)
NumberToString(n) ==
    IF n < 0 THEN "-" \o NumberToString(0 - n)
    ELSE IF n < 10 THEN Digit(n)
    ELSE NumberToString(n \div 10) \o Digit(n % 10)

String(value) ==
    CASE value.type = "string" -> value.str
      [] value.type = "number" -> NumberToString(value.num)
      [] value.type = "boolean" -> IF value.value THEN "true" ELSE "false"

\* isObject(value) of helpers: a value of type object that is not null.
IsObject(value) == value.type = "object"

\* FormData: the entries in the order they were appended.
Entry(name, value) == [name |-> name, value |-> value]
Returns(form) == [kind |-> "FormData", entries |-> form]
Throws == [kind |-> "threw"]

\* formKey: `namespace ? namespace + '[' + property + ']' : property`, where
\* the namespace is <<>> for null and <<s>> for the string s.
FormKey(namespace, property) ==
    IF namespace # <<>> /\ namespace[1] # ""
    THEN namespace[1] \o "[" \o property \o "]"
    ELSE property

\* Mutant: a null value is skipped and its key is lost.
AppendNull_Skipped(form, formKey) == form

\* value === null: form.append(formKey, '')
AppendNull(form, formKey) == Append(form, Entry(formKey, Str("")))

\* Mutant: an undefined value is dropped without a word.
OnUndefined_Dropped(form) == Returns(form)

\* value === undefined: throw new Error('Unexpected value')
OnUndefined(form) == Throws

\* value instanceof Date: form.append(formKey, value.toISOString());
\* toISOString throws a RangeError on an invalid date.
AppendDate(form, formKey, value) ==
    IF value.valid THEN Returns(Append(form, Entry(formKey, Str(value.iso))))
    ELSE Throws

\* FormDataBody.toFormData(data, form, namespace): the for..in loop over the
\* properties left to visit, the body of the loop for one property, and the
\* loop over the elements of an array from index i on.
RECURSIVE ToFormData(_, _, _)
RECURSIVE EncodeProperty(_, _, _)
RECURSIVE EncodeElements(_, _, _, _)

ToFormData(props, form, namespace) ==
    IF props = <<>> THEN Returns(form)
    ELSE LET formKey == FormKey(namespace, Head(props).key)
             done == EncodeProperty(Head(props).value, form, formKey)
         IN IF done.kind = "threw" THEN done
            ELSE ToFormData(Tail(props), done.entries, namespace)

EncodeProperty(value, form, formKey) ==
    IF value = Null THEN Returns(AppendNull(form, formKey))
    ELSE IF value = Undefined THEN OnUndefined(form)
    ELSE IF value.type = "Date" THEN AppendDate(form, formKey, value)
    ELSE IF value.type = "array" THEN EncodeElements(value.items, 0, form, formKey)
    ELSE IF value.type = "Blob" THEN Returns(Append(form, Entry(formKey, value)))
    ELSE IF IsObject(value) THEN ToFormData(value.props, form, <<formKey>>)
    ELSE IF value.type \in {"string", "number", "boolean"}
         THEN Returns(Append(form, Entry(formKey, Str(String(value)))))
    ELSE Throws

EncodeElements(items, i, form, formKey) ==
    IF ~(i < Len(items)) THEN Returns(form)
    ELSE LET done == ToFormData(<<Prop(NumberToString(i), items[i + 1])>>,
                                form, <<formKey>>)
         IN IF done.kind = "threw" THEN done
            ELSE EncodeElements(items, i + 1, done.entries, formKey)

\* new FormDataBody(data)
NewFormDataBody(data) == ToFormData(data.props, <<>>, <<>>)

\* ------------------------------------------------- FormDataBody: inputs
\* Property names, the empty name among them.
Keys == {"", "id", "tags"}

\* The values at the leaves of a body.
LeafValues == {Null, Undefined, Str("a"), Str(""), Num(3), Num(-12), False,
               ValidDate, InvalidDate, File, Function, BigInt}
InnerValues == {Null, Undefined, Str("a"), File}

SeqsOver(S) == UNION {[1..n -> S] : n \in 0..MaxItems}

\* Objects with distinct property names, values from S.
ObjectsOver(S) ==
    {Obj(props) : props \in
        {p \in SeqsOver([key : Keys, value : S]) :
            \A i, j \in 1..Len(p) : p[i].key = p[j].key => i = j}}

\* Arrays and objects of leaves; such a value in an array or under a key.
NestedValues ==
    InnerValues \cup {Arr(items) : items \in SeqsOver(InnerValues)}
                \cup ObjectsOver(InnerValues)
TopValues ==
    LeafValues \cup NestedValues
               \cup {Arr(<<v>>) : v \in NestedValues}
               \cup {Obj(<<Prop(k, v)>>) : k \in Keys, v \in NestedValues}

\* The bodies given to the constructor: one property of any value, or
\* properties of leaf values.
Bodies ==
    {Obj(<<Prop(k, v)>>) : k \in Keys, v \in TopValues} \cup ObjectsOver(LeafValues)

InitBody ==
    /\ RouterAbsent
    /\ PaginatorAbsent
    /\ FormAbsent
    /\ requestBody \in Bodies
    /\ content = NotConstructed

\* new FormDataBody(requestBody): this.data = this.toFormData(data)
Construct ==
    /\ content = NotConstructed
    /\ content' = NewFormDataBody(requestBody)
    /\ UNCHANGED <<requestBody, baseForm, built, vars, viewVars, pagVars>>

NextBody == Construct

SpecBody == InitBody /\ [][NextBody]_<<vars, viewVars, pagVars, formVars>>

\* -------------------------------------------------- claims on FormDataBody

\* The leaves of a value, depth first in property and index order, each with
\* the path of property names and indices that leads to it.  An empty array
\* or object has none.
RECURSIVE LeavesOf(_, _)
RECURSIVE LeavesOfAll(_, _, _)
LeavesOf(value, path) ==
    IF value.type = "array"
    THEN LeavesOfAll([i \in 1..Len(value.items) |->
                         Prop(NumberToString(i - 1), value.items[i])], 1, path)
    ELSE IF value.type = "object" THEN LeavesOfAll(value.props, 1, path)
    ELSE <<[path |-> path, leaf |-> value]>>

LeavesOfAll(props, i, path) ==
    IF i > Len(props) THEN <<>>
    ELSE LeavesOf(props[i].value, Append(path, props[i].key))
             \o LeavesOfAll(props, i + 1, path)

BodyLeaves == LeavesOf(requestBody, <<>>)

\* The leaves FormDataBody has an encoding for.
Encodable(leaf) ==
    \/ leaf = Null
    \/ leaf.type \in {"string", "number", "boolean", "Blob"}
    \/ leaf.type = "Date" /\ leaf.valid

\* C26's table: what a leaf is appended as.
Encoded(leaf) ==
    IF leaf = Null THEN Str("")
    ELSE IF leaf.type = "Date" THEN Str(leaf.iso)
    ELSE IF leaf.type = "Blob" THEN leaf
    ELSE Str(String(leaf))

\* C26: FormDataBody value encoding.  When every leaf of the body is null, a
\* (valid) Date, a Blob/File, a string, a number or a boolean, the constructor
\* returns and each leaf has produced exactly one entry, in order: the empty
\* string for null (the key is there), toISOString() for a Date, the very
\* same object for a Blob/File, String(value) for a string, number or boolean.
C26_ValueEncoding ==
    (/\ content # NotConstructed
     /\ \A i \in 1..Len(BodyLeaves) : Encodable(BodyLeaves[i].leaf))
    => /\ content.kind = "FormData"
       /\ Len(content.entries) = Len(BodyLeaves)
       /\ \A i \in 1..Len(BodyLeaves) :
             content.entries[i].value = Encoded(BodyLeaves[i].leaf)

\* { id: -12, tags: null } has been encoded: id is "-12" and tags is there
\* with the empty string.
C26_Witness ==
    /\ requestBody = Obj(<<Prop("id", Num(-12)), Prop("tags", Null)>>)
    /\ content = Returns(<<Entry("id", Str("-12")), Entry("tags", Str(""))>>)

\* C27: FormDataBody fails fast on unencodable values.  When some value of
\* the body, at whatever depth, as an object property or as an array element,
\* is undefined or of a type other than null, Date, array, Blob, object,
\* string, number, boolean, the constructor throws and no FormData comes out
\* of it.
C27_FailsFast ==
    (/\ content # NotConstructed
     /\ \E i \in 1..Len(BodyLeaves) :
           \/ BodyLeaves[i].leaf = Undefined
           \/ BodyLeaves[i].leaf.type \notin
                 {"null", "Date", "array", "Blob", "object", "string", "number",
                  "boolean"})
    => content = Throws

\* { tags: ['a', undefined] }: the constructor threw on the second element.
C27_Witness ==
    /\ requestBody = Obj(<<Prop("tags", Arr(<<Str("a"), Undefined>>))>>)
    /\ content = Throws

\* k[p1]...[pn] for the path <<k, p1, ..., pn>>
RECURSIVE BracketName(_)
BracketName(path) ==
    IF Len(path) = 1 THEN path[1]
    ELSE BracketName(SubSeq(path, 1, Len(path) - 1)) \o "[" \o path[Len(path)] \o "]"

\* C28: FormDataBody key namespacing.  When the constructor returns, each leaf
\* reached from the top-level key k through the indices and keys p1..pn has
\* been appended once, under the name k[p1]...[pn], leaves in property order
\* and array elements in index order.
C28_BracketNames ==
    content.kind = "FormData"
    => /\ Len(content.entries) = Len(BodyLeaves)
       /\ \A i \in 1..Len(BodyLeaves) :
             content.entries[i].name = BracketName(BodyLeaves[i].path)

\* -------------------------------------------------- BaseForm.buildPayload
\* Getter names: get + the field name with its first character uppercased; for
\* a nested property and for an appended field the name is camel-cased first.
UpperFirst(s) ==
    CASE s = "name" -> "Name" [] s = "meta" -> "Meta"
      [] s = "positions" -> "Positions" [] s = "id" -> "Id"
      [] s = "secret" -> "Secret" [] s = "internal" -> "Internal"
      [] s = "startedAt" -> "StartedAt"
CamelCase(s) == IF s = "started_at" THEN "startedAt" ELSE s
FieldGetter(F) == "get" \o UpperFirst(F)
CompositeGetter(F, P) == "get" \o UpperFirst(F) \o UpperFirst(CamelCase(P))
AppendedGetter(A) == "get" \o UpperFirst(CamelCase(A))

\* The getters a form class may define, and what a getter does with the value
\* it is given: return undefined; `value ? value : undefined`;
\* `value ? value : null`.  "none": the class does not define the getter.
GetterNames ==
    {"getName", "getMeta", "getMetaSecret", "getPositionsInternal", "getStartedAt"}
GetterBodies == {"undefined", "orUndefined", "orNull"}
Truthy(value) == value \notin {Null, Undefined, Str(""), False}
CallGetter(f, getter, value) ==
    CASE f.getters[getter] = "undefined" -> Undefined
      [] f.getters[getter] = "orUndefined" -> IF Truthy(value) THEN value ELSE Undefined
      [] f.getters[getter] = "orNull" -> IF Truthy(value) THEN value ELSE Null
Defines(f, getter) == getter \in DOMAIN f.getters /\ f.getters[getter] # "none"

\* The value of the property `key` of an object.
ValueAt(object, key) ==
    object.props[CHOOSE i \in 1..Len(object.props) : object.props[i].key = key].value

\* Step 2 of the walk: the child P of a branch of field F is dropped when its
\* composite getter returns undefined, replaced by what the getter returns
\* otherwise, and copied when there is no such getter; in an array the same
\* goes for every element that is an object.
ChildKept(f, F, child) ==
    ~(/\ Defines(f, CompositeGetter(F, child.key))
      /\ CallGetter(f, CompositeGetter(F, child.key), child.value) = Undefined)

RebuildObject(f, F, object) ==
    LET Kept(child) == ChildKept(f, F, child)
        kept == SelectSeq(object.props, Kept)
    IN Obj([i \in 1..Len(kept) |->
              IF Defines(f, CompositeGetter(F, kept[i].key))
              THEN Prop(kept[i].key,
                        CallGetter(f, CompositeGetter(F, kept[i].key), kept[i].value))
              ELSE kept[i]])

RebuildBranch(f, F, value) ==
    IF value.type = "object" THEN RebuildObject(f, F, value)
    ELSE IF value.type = "array"
         THEN Arr([i \in 1..Len(value.items) |->
                      IF value.items[i].type = "object"
                      THEN RebuildObject(f, F, value.items[i])
                      ELSE value.items[i]])
    ELSE value

\* Mutant: as before version 3, a field whose getter returns undefined stays
\* in the payload.
FieldKept_V2(f, field) == field.key \notin f.ignore

\* A top-level field is left out when it is listed in ignore or when its field
\* getter returns undefined.
FieldKept(f, field) ==
    /\ field.key \notin f.ignore
    /\ ~(/\ Defines(f, FieldGetter(field.key))
         /\ CallGetter(f, FieldGetter(field.key), field.value) = Undefined)

\* Steps 1 to 3 for one top-level field that is kept.
PayloadField(f, field) ==
    IF Defines(f, FieldGetter(field.key))
    THEN Prop(field.key, CallGetter(f, FieldGetter(field.key), field.value))
    ELSE Prop(field.key, RebuildBranch(f, field.key, field.value))

\* An appended field's getter takes no argument; here it works on state.name.
AppendedValue(f, A) == CallGetter(f, AppendedGetter(A), ValueAt(f.state, "name"))
AppendedKept(f, A) ==
    ~(Defines(f, AppendedGetter(A)) /\ AppendedValue(f, A) = Undefined)

\* BaseForm.buildPayload()
BuildPayload(f) ==
    LET Kept(field) == FieldKept(f, field)
        kept == SelectSeq(f.state.props, Kept)
        AKept(A) == AppendedKept(f, A)
        appended == SelectSeq(f.append, AKept)
    IN Obj([i \in 1..Len(kept) |-> PayloadField(f, kept[i])]
           \o [i \in 1..Len(appended) |-> Prop(appended[i], AppendedValue(f, appended[i]))])

\* The forms: a state of name, meta and positions, the getters defined, with
\* or without the appended field started_at (and then its getter), with or
\* without an ignored field.
Position(internal) == Obj(<<Prop("id", Str("a")), Prop("internal", internal)>>)
FormStates ==
    {Obj(<<Prop("name", n), Prop("meta", Obj(<<Prop("id", Str("m1")), Prop("secret", s)>>)),
           Prop("positions", ps)>>) :
        n \in {Str("a"), Str(""), Null},
        s \in {Str("top-secret"), Null},
        ps \in {Arr(<<>>), Arr(<<Position(Str("x")), Position(Null)>>)}}
Forms ==
    {[state |-> st, getters |-> g, append |-> a, ignore |-> ig] :
        st \in FormStates,
        g \in {h \in [GetterNames -> GetterBodies \cup {"none"}] :
                  h["getMeta"] \in {"none", "undefined"}},
        a \in {<<>>, <<"started_at">>},
        ig \in {{}, {"name"}}}

InitForm ==
    /\ RouterAbsent
    /\ PaginatorAbsent
    /\ BodyAbsent
    /\ baseForm \in {f \in Forms : f.append # <<>> <=> f.getters["getStartedAt"] # "none"}
    /\ built = NotBuilt

\* form.buildPayload()
Build ==
    /\ built = NotBuilt
    /\ built' = BuildPayload(baseForm)
    /\ UNCHANGED <<baseForm, requestBody, content, vars, viewVars, pagVars>>

NextForm == Build

SpecForm == InitForm /\ [][NextForm]_<<vars, viewVars, pagVars, formVars>>

\* --------------------------------------------------- claims on buildPayload
KeysOf(object) == {object.props[i].key : i \in 1..Len(object.props)}
AppendedNames(f) == {f.append[i] : i \in 1..Len(f.append)}

\* The top-level keys whose field getter or appended getter returned undefined.
TopOmitted(f) ==
    {F \in KeysOf(f.state) :
        /\ Defines(f, FieldGetter(F))
        /\ CallGetter(f, FieldGetter(F), ValueAt(f.state, F)) = Undefined}
    \cup {A \in AppendedNames(f) :
             Defines(f, AppendedGetter(A)) /\ AppendedValue(f, A) = Undefined}

\* The keys of the object `was` whose composite getter under F returned
\* undefined are exactly the keys missing in `is`.
ChildrenOmitted(f, F, was, is) ==
    KeysOf(is) = KeysOf(was) \ {P \in KeysOf(was) :
                                   /\ Defines(f, CompositeGetter(F, P))
                                   /\ CallGetter(f, CompositeGetter(F, P),
                                                 ValueAt(was, P)) = Undefined}

\* In every branch that was walked (a top-level object or array of objects
\* without a field getter) exactly the children whose composite getter
\* returned undefined are missing, in every element of an array alike; a
\* field or child that is null and has no getter is there, and null.
NestedOmitted(f, result) ==
    \A F \in KeysOf(result) \cap KeysOf(f.state) :
        ~Defines(f, FieldGetter(F))
        => LET was == ValueAt(f.state, F)
               is == ValueAt(result, F)
           IN /\ was.type = "object" => ChildrenOmitted(f, F, was, is)
              /\ was.type = "array"
                 => /\ Len(is.items) = Len(was.items)
                    /\ \A i \in 1..Len(was.items) :
                          ChildrenOmitted(f, F, was.items[i], is.items[i])
              /\ was = Null => is = Null
              /\ was.type = "object"
                 => \A P \in KeysOf(was) :
                       (ValueAt(was, P) = Null /\ ~Defines(f, CompositeGetter(F, P)))
                       => (P \in KeysOf(is) /\ ValueAt(is, P) = Null)

\* C29 as claimed: buildPayload() leaves out exactly the keys whose field
\* getter, composite getter (per element in an array of objects) or appended
\* getter returned undefined; every other key, of the state and of append, is
\* in the payload, the keys whose value is null included.
C29_OmitsExactly ==
    built # NotBuilt
    => /\ KeysOf(built) =
             (KeysOf(baseForm.state) \cup AppendedNames(baseForm)) \ TopOmitted(baseForm)
       /\ NestedOmitted(baseForm, built)

\* C29 amended: buildPayload() leaves out exactly the top-level fields listed
\* in ignore and the keys whose field getter, composite getter (per element
\* in an array of objects) or appended getter returned undefined; every other
\* key is in the payload, the keys whose value is null included.
C29_OmitsIgnoredAndUndefined ==
    built # NotBuilt
    => /\ KeysOf(built) =
             (KeysOf(baseForm.state) \cup AppendedNames(baseForm))
                 \ (TopOmitted(baseForm) \cup baseForm.ignore)
       /\ NestedOmitted(baseForm, built)

\* The form ignores name, getMetaSecret returns null for the null secret and
\* getPositionsInternal returns undefined: the payload has no name, meta with
\* id and the null secret, and the positions without internal.
C29_Witness ==
    /\ baseForm.ignore = {"name"}
    /\ baseForm.getters = [g \in GetterNames |->
                              IF g = "getMetaSecret" THEN "orNull"
                              ELSE IF g = "getPositionsInternal" THEN "undefined"
                              ELSE "none"]
    /\ built = Obj(<<Prop("meta", Obj(<<Prop("id", Str("m1")), Prop("secret", Null)>>)),
                     Prop("positions", Arr(<<Obj(<<Prop("id", Str("a"))>>),
                                             Obj(<<Prop("id", Str("a"))>>)>>))>>)

\* ------------------------------------------------------ claims on the cache

\* C30: cache entry consistency.  In every reachable state, under every
\* interleaving of navigations, refreshes and completions, the payload of a
\* cache entry is an answer of resolve(paramValue) for the entry's own
\* paramValue, after the getter if the prop has one; paramValue and payload
\* never come from two different resolutions.
C30_CacheEntryConsistent ==
    \A p \in Props :
        cache[p] # Undefined
        => /\ cache[p].paramValue \in ParamVals
           /\ \E ver \in 1..MaxVer :
                 cache[p].payload = ApplyGetter(p, Response(cache[p].paramValue, ver))

\* A resolution for param 1 completed after the route had moved on to param
\* 2: the entry it wrote is keyed 1 and holds the answer for 1.
C30_Witness ==
    \E p \in Props :
        /\ cache[p] # Undefined
        /\ cache[p].paramValue = "1"
        /\ cache[p].payload.param = "1"
        /\ resolvers[p] = "2"
        /\ injectable = {p}
        /\ outcome = PendingDone

\* ------------------------------------------------ loading, in the long run
\* The guard and its resolutions where every resolver promise settles: each
\* call of resolveProp suspended at its await is resumed at some time.  A
\* navigation replaces the meta bag shown, and the flags of the earlier one
\* are seen no more: here a navigation begins when no flag shown is true, so
\* that a flag that was set is followed to the step that clears it.  Calls
\* may still be in flight at a navigation (a silent refresh, or a call whose
\* flag another call's finally has cleared), and settle for the earlier route.
\* The fairness stated is the weakest that serves: while a promise is pending,
\* some pending promise settles.  The backend's answer plays no part in the
\* flags: it gives its first answer throughout.

\* The prop's loading flag on the current route is true.
Loading(p) == injectionState[p] # Undefined /\ injectionState[p].loading

\* Every value a suspended call of resolveProp may have.
Calls ==
    [prop : Props, own : BOOLEAN, paramValue : ParamVals,
     silent : BOOLEAN, origin : {"guard", "refresh"}]

\* The promise call c awaits settles, one way or the other.
Settle(c) ==
    /\ \/ SettleFulfilled(c, 1)
       \/ \E e \in Rejections : SettleRejected(c, e)
    /\ UNCHANGED <<viewVars, pagVars, formVars>>

NextLive ==
    \/ \E t \in Targets :
           /\ \A p \in Props : ~Loading(p)
           /\ Navigate(t)
           /\ UNCHANGED <<viewVars, pagVars, formVars>>
    \/ \E p \in Props, silent \in BOOLEAN : Refresh(p, silent) /\ UNCHANGED <<viewVars, pagVars, formVars>>
    \/ \E p \in Props : RefreshNoResolver(p) /\ UNCHANGED <<viewVars, pagVars, formVars>>
    \/ \E c \in BagToSet(inflight) :
           SettleFulfilled(c, 1) /\ UNCHANGED <<viewVars, pagVars, formVars>>
    \/ \E c \in BagToSet(inflight), e \in Rejections :
           SettleRejected(c, e) /\ UNCHANGED <<viewVars, pagVars, formVars>>

SpecLive ==
    /\ Init
    /\ [][NextLive]_<<vars, viewVars, pagVars, formVars>>
    /\ WF_<<vars, viewVars, pagVars, formVars>>(\E c \in Calls : Settle(c))

ParamMissing(t, p) ==
    t[p].kind # "noInject" /\ ParamValue(t[p]) = NoParam

\* The targets of a router whose route records declare prop p alone.
TargetsOf(p) ==
    {[q \in Props |-> IF q = p THEN raw ELSE [kind |-> "noInject"]] :
         raw \in {[kind |-> "noInject"]} \cup RawParams}

\* C32: a missing route param skips the injection.  When the guard runs for a
\* target whose params have no value for an injection's `from` param, it does
\* not invoke resolve for the prop, leaves no state entry, no injected value
\* and no resolver for it, and the cache holds no entry for the prop when the
\* guard returns; and no step invokes resolve for a prop that has no
\* resolver: a refresh of it ends fulfilled with undefined, nothing changed.
C32_MissingParamSkips ==
    [][/\ \A p \in injectable : \A t \in TargetsOf(p) :
              (GuardStep /\ ParamMissing(t, p) /\ Navigate(t))
              => /\ Invoked(p) = 0
                 /\ injectionState'[p] = Undefined
                 /\ injectedProps'[p] = Undefined
                 /\ resolvers'[p] = NoParam
                 /\ cache'[p] = Undefined
       /\ \A p \in Props :
              (~GuardStep /\ ~Active(p)) => Invoked(p) = 0
       /\ \A p \in Props :
              RefreshNoResolver(p)
              => /\ outcome' = RefreshFulfilled(Undefined)
                 /\ UNCHANGED <<cache, injectedProps, injectionState,
                                resolvers, inflight>>
      ]_<<vars, viewVars, pagVars, formVars>>

\* The prop was resolved and cached, a navigation without a value for its
\* param evicted the entry and left no resolver, and a refresh of the prop
\* came back with undefined.  (A target whose record declares no injection
\* for the prop leaves the same state; every state of this kind is reached
\* through a target with the param missing as well.)
C32_Witness ==
    \E p \in injectable :
        /\ trip.stage = "away" /\ trip.prop = p
        /\ cache[p] = Undefined
        /\ injectionState[p] = Undefined
        /\ resolvers[p] = NoParam
        /\ outcome = RefreshFulfilled(Undefined)

\* The sequence holds no value twice.
NoRepeat(seq) ==
    \A i, j \in 1..Len(seq) : seq[i] = seq[j] => i = j

\* C33 (as claimed): no page is accumulated twice in a StatePaginator.  In a
\* run of init() and loadNext() calls with no flush, no item of a response
\* stands twice in the view data and no token value, null included, is sent
\* to the data driver twice (a request that rejected and is sent again left
\* aside).
C33_NoPageTwice ==
    paginator = "StatePaginator"
    => /\ NoRepeat(viewDriver.data)
       /\ \A i, j \in 1..Len(requests) :
             (/\ requests[i].state = requests[j].state
              /\ requests[i].kind # "rejected"
              /\ requests[j].kind # "rejected") => i = j

\* ------------------------------------- PageAwarePaginator: overlapping loads
\* A PageAwarePaginator whose caller changes the page while the load of an
\* earlier page change is pending (one at most); the data driver answers
\* every request, in any order.  init is given the page and page size the
\* paginator was constructed with.
InitOverlap == Constructed({"PageAwarePaginator"})

NextOverlap ==
    \/ /\ called = NotCalled
       /\ PageInit(viewDriver.currentPage, viewDriver.pageSize)
       /\ UNCHANGED <<vars, viewVars, requests, formVars>>
    \/ \E n \in 1..MaxPage :
           /\ initialized /\ OneAhead
           /\ SetPage(n, NoOptions) /\ UNCHANGED <<vars, viewVars, requests, formVars>>
    \/ initialized /\ OneAhead /\ ToNextPage /\ UNCHANGED <<vars, viewVars, requests, formVars>>
    \/ \E f \in BagToSet(fetches) : FetchFulfilled(f) /\ UNCHANGED <<vars, viewVars, requests, formVars>>

SpecOverlap == InitOverlap /\ [][NextOverlap]_<<vars, viewVars, pagVars, formVars>>

\* getPageData() is what the driver returned for getCurrentPage() at
\* getPageSize().
DisplaysCurrentPage ==
    viewDriver.data =
        PageGet(dataDriver, viewDriver.currentPage, viewDriver.pageSize).data

\* C34 (as claimed): the displayed page matches the current page under
\* overlapping loads.  In a PageAwarePaginator, whenever no load is in flight
\* and every load issued has succeeded, the view data is the data the driver
\* returned for the current page at the current page size.
C34_DisplayedIsCurrent ==
    (/\ paginator = "PageAwarePaginator"
     /\ called = Fulfilled
     /\ fetches = EmptyBag)
    => DisplaysCurrentPage

\* ------------------------------------------ PageAwarePaginator: failed loads
\* A PageAwarePaginator whose caller awaits each operation before the next:
\* init with the page and page size of the constructor, then page changes and
\* page size changes; a request is answered, or fails.
NextFailed ==
    \/ /\ called = NotCalled
       /\ PageInit(viewDriver.currentPage, viewDriver.pageSize)
       /\ UNCHANGED <<vars, viewVars, requests, formVars>>
    \/ \E n \in 1..MaxPage :
           /\ initialized /\ Awaited
           /\ SetPage(n, NoOptions) /\ UNCHANGED <<vars, viewVars, requests, formVars>>
    \/ initialized /\ Awaited /\ ToNextPage /\ UNCHANGED <<vars, viewVars, requests, formVars>>
    \/ initialized /\ Awaited /\ ToPreviousPage /\ UNCHANGED <<vars, viewVars, requests, formVars>>
    \/ initialized /\ Awaited /\ ToFirstPage /\ UNCHANGED <<vars, viewVars, requests, formVars>>
    \/ initialized /\ Awaited /\ ToLastPage /\ UNCHANGED <<vars, viewVars, requests, formVars>>
    \/ \E s \in PageSizes :
           /\ initialized /\ Awaited
           /\ SetPageSize(s) /\ UNCHANGED <<vars, viewVars, requests, formVars>>
    \/ \E f \in BagToSet(fetches) : FetchFulfilled(f) /\ UNCHANGED <<vars, viewVars, requests, formVars>>
    \/ \E f \in BagToSet(fetches) : FetchRejected(f) /\ UNCHANGED <<vars, viewVars, requests, formVars>>

SpecFailed == InitOverlap /\ [][NextFailed]_<<vars, viewVars, pagVars, formVars>>

\* C35 (as claimed): a failed page change leaves the page-based paginator
\* unchanged.  When the request of setPage, toNextPage, toPreviousPage,
\* toFirstPage, toLastPage or setPageSize has rejected, the view data, the
\* total, the current page and the page size are what they were before the
\* call: once a page has been displayed and no load is pending, the current
\* page and page size name the page whose data is displayed.
C35_FailedChangeKeepsPage ==
    (/\ paginator = "PageAwarePaginator"
     /\ fetches = EmptyBag
     /\ viewDriver.total > 0)
    => DisplaysCurrentPage

\* --------------------------------------------- StatePaginator: failed loads
\* A StatePaginator whose caller awaits each operation before the next:
\* init(), then loadNext() and refresh(); a request is answered, or fails.
\* The requests sent are recorded.
NextLost ==
    \/ /\ called = NotCalled
       /\ StateInit /\ RequestSent
       /\ UNCHANGED <<vars, viewVars, formVars>>
    \/ /\ initialized /\ Awaited /\ Len(requests) < MaxRequests
       /\ LoadNext /\ RequestSent
       /\ UNCHANGED <<vars, viewVars, formVars>>
    \/ \E o \in LoadOptions :
           /\ initialized /\ Awaited /\ Len(requests) < MaxRequests
           /\ StateRefresh(o) /\ RequestSent
           /\ UNCHANGED <<vars, viewVars, formVars>>
    \/ \E f \in BagToSet(fetches) :
           FetchFulfilled(f) /\ RequestSettled("fulfilled") /\ UNCHANGED <<vars, viewVars, formVars>>
    \/ \E f \in BagToSet(fetches) :
           FetchRejected(f) /\ RequestSettled("rejected") /\ UNCHANGED <<vars, viewVars, formVars>>

SpecLost == InitCursor /\ [][NextLost]_<<vars, viewVars, pagVars, formVars>>

\* The last request that was answered, 0 if none was.
RECURSIVE LastFulfilled(_)
LastFulfilled(n) ==
    IF n = 0 THEN 0
    ELSE IF requests[n].kind = "fulfilled" THEN n
    ELSE LastFulfilled(n - 1)

\* C36 (as claimed): a failed cursor refresh leaves the cursor paginator
\* unchanged.  When the request of refresh() or of loadNext() has rejected,
\* the token held and hasNextPage() are what they were before the call: with
\* no load pending, the token held is the one the last answer brought, and
\* hasNextPage() says whether that token is not null.
C36_FailedRefreshKeepsToken ==
    LET n == LastFulfilled(Len(requests))
    IN (/\ paginator = "StatePaginator"
        /\ fetches = EmptyBag
        /\ n > 0)
       => /\ currentState = ResponseTo(n).state
          /\ HasNextPage <=> ResponseTo(n).state # NoState

\* A request sent by refresh() is pending.
RefreshInFlight == \E f \in BagToSet(fetches) : f.options.flush

PagesAt(total, s) == (total + s - 1) \div s

\* C38 (as claimed): setPageSize(s) keeps the current page whenever it still
\* exists.  It stores the new size and asks for the current page at the new
\* size if the current page is at most ceil(total / s), and moves to page 1
\* only when the current page lies beyond the last page at the new size.
C38_KeepsValidPage ==
    [][\A s \in PageSizes :
          (paginator = "PageAwarePaginator" /\ SetPageSize(s))
          => LET page == IF viewDriver.currentPage <= PagesAt(viewDriver.total, s)
                         THEN viewDriver.currentPage ELSE 1
             IN /\ viewDriver'.pageSize = s
                /\ viewDriver'.currentPage = page
                /\ fetches' = fetches (+) SetToBag({PageFetch(page, s, NoOptions)})
      ]_<<vars, viewVars, pagVars, formVars>>

\* PageAwarePaginator.getFromItemNumber / getToItemNumber
GetFromItemNumber == (viewDriver.currentPage - 1) * viewDriver.pageSize + 1
GetToItemNumber == viewDriver.currentPage * viewDriver.pageSize

\* C39 (as claimed): the item-number range is within the result set.  With a
\* page of a result that is not empty loaded and displayed,
\* 1 <= getFromItemNumber() <= getToItemNumber() <= getTotal(), and
\* getFromItemNumber() is (page - 1) * size + 1.
C39_RangeWithinTotal ==
    (/\ paginator = "PageAwarePaginator"
     /\ fetches = EmptyBag
     /\ viewDriver.data # <<>>
     /\ DisplaysCurrentPage)
    => /\ 1 <= GetFromItemNumber
       /\ GetFromItemNumber <= GetToItemNumber
       /\ GetToItemNumber <= viewDriver.total
       /\ GetFromItemNumber = (viewDriver.currentPage - 1) * viewDriver.pageSize + 1

\* The own keys of a value at any depth, each as the path of property names
\* and indices that leads to it; the elements of an array are visited for the
\* keys below them.
RECURSIVE KeyPaths(_, _)
RECURSIVE KeyPathsOfAll(_, _, _, _)
KeyPaths(value, path) ==
    IF value.type = "array"
    THEN KeyPathsOfAll([i \in 1..Len(value.items) |->
                           Prop(NumberToString(i - 1), value.items[i])], 1, path, FALSE)
    ELSE IF value.type = "object" THEN KeyPathsOfAll(value.props, 1, path, TRUE)
    ELSE <<>>

KeyPathsOfAll(props, i, path, own) ==
    IF i > Len(props) THEN <<>>
    ELSE LET here == Append(path, props[i].key)
         IN (IF own THEN <<here>> ELSE <<>>)
                \o KeyPaths(props[i].value, here)
                \o KeyPathsOfAll(props, i + 1, path, own)

BodyKeys == KeyPaths(requestBody, <<>>)

\* The name begins with the prefix.
BeginsWith(name, prefix) ==
    Len(name) >= Len(prefix) /\ SubSeq(name, 1, Len(prefix)) = prefix

\* C40 (as claimed): FormDataBody never silently drops a key.  When the
\* constructor returns, for every own key of the body, at any depth, the
\* FormData holds an entry whose name is the key's bracket path or begins with
\* it, a key whose value is an empty array or an empty object included.  (The
\* bodies looked at have no empty name at the top level.)
C40_NoKeyDropped ==
    (/\ content.kind = "FormData"
     /\ \A i \in 1..Len(requestBody.props) : requestBody.props[i].key # "")
    => \A i \in 1..Len(BodyKeys) :
           \E j \in 1..Len(content.entries) :
               BeginsWith(content.entries[j].name, BracketName(BodyKeys[i]))

====
